---- MODULE Spec2Model ----
(***************************************************************************)
(* Repository management core of Atlantis: GitService                      *)
(* (backend/app/services/git_service.py).                                  *)
(*                                                                         *)
(* The state is the part of the file system the service works on (the      *)
(* directories, the files with their text, and for every directory that    *)
(* holds a Git repository the state of the repository as the Git engine    *)
(* keeps it), the configuration object, the identifier allocator, the      *)
(* credential variables of the process environment, the push, pull and     *)
(* create_commit calls in progress and the outcome of the last call.       *)
(* Paths, names, URLs and file contents are strings and are handled        *)
(* character by character as the code does.                                *)
(***************************************************************************)
EXTENDS Integers, Sequences, FiniteSets, TLC

VARIABLES
    fsDirs,     \* set of absolute paths that are directories
    fsFiles,    \* function: absolute path of a regular file -> its bytes
    git,        \* function: directory holding a repository -> engine state
    settings,   \* app.core.config.settings as the service reads it
    nextId,     \* number of identifiers uuid4 has handed out so far
    environ,    \* os.environ: the two credential variables of the process
    frames,     \* function: thread -> the push, pull or create_commit call it runs
    last        \* the last call: operation, arguments, error kind, result

vars == <<fsDirs, fsFiles, git, settings, nextId, environ, frames, last>>

(***************************************************************************)
(* Bounds of the model.                                                    *)
(***************************************************************************)
\* how many repositories create_repository may allocate in a behaviour
MaxRepos == 2
\* how many commits one repository may hold
MaxCommits == 2
\* the threads that call push and pull at the same time
Threads == {1, 2}

(***************************************************************************)
(* Strings.                                                                *)
(***************************************************************************)
StartsWith(s, p) == Len(p) <= Len(s) /\ SubSeq(s, 1, Len(p)) = p

Contains(s, sub) ==
    \E i \in 1..(Len(s) - Len(sub) + 1) : SubSeq(s, i, i + Len(sub) - 1) = sub

CharsOf(s) == { SubSeq(s, i, i) : i \in 1..Len(s) }

AlnumChars == CharsOf("abcdefghijklmnopqrstuvwxyzABCDEFGHIJKLMNOPQRSTUVWXYZ0123456789")

WhitespaceChars == {" ", "\t", "\n", "\r", "\f"}

\* str.isalnum(): non-empty and every character alphanumeric
IsAlnum(s) == s # "" /\ CharsOf(s) \subseteq AlnumChars

\* str.replace(ch, '') for a one-character ch
RECURSIVE RemoveChar(_, _)
RemoveChar(s, ch) ==
    IF s = "" THEN ""
    ELSE IF Head(s) = ch THEN RemoveChar(Tail(s), ch)
    ELSE Head(s) \o RemoveChar(Tail(s), ch)

RECURSIVE LStrip(_)
LStrip(s) ==
    IF s # "" /\ Head(s) \in WhitespaceChars THEN LStrip(Tail(s)) ELSE s

RECURSIVE RStrip(_)
RStrip(s) ==
    IF s # "" /\ SubSeq(s, Len(s), Len(s)) \in WhitespaceChars
    THEN RStrip(SubSeq(s, 1, Len(s) - 1)) ELSE s

\* str.strip()
Strip(s) == RStrip(LStrip(s))

Digits == <<"1", "2", "3", "4", "5", "6", "7", "8", "9">>

(***************************************************************************)
(* Paths (pathlib on POSIX; the model has no symbolic links).              *)
(***************************************************************************)
\* the segments of s between the '/' separators
RECURSIVE SplitPath(_, _, _)
SplitPath(s, cur, acc) ==
    IF s = "" THEN Append(acc, cur)
    ELSE IF Head(s) = "/" THEN SplitPath(Tail(s), "", Append(acc, cur))
    ELSE SplitPath(Tail(s), cur \o Head(s), acc)

\* lexical resolution of '', '.' and '..' segments
RECURSIVE Normalize(_, _)
Normalize(segs, acc) ==
    IF segs = <<>> THEN acc
    ELSE LET h == Head(segs) IN
         IF h = "" \/ h = "." THEN Normalize(Tail(segs), acc)
         ELSE IF h = ".."
              THEN Normalize(Tail(segs),
                             IF acc = <<>> THEN acc ELSE SubSeq(acc, 1, Len(acc) - 1))
              ELSE Normalize(Tail(segs), Append(acc, h))

RECURSIVE JoinSegs(_)
JoinSegs(segs) ==
    IF segs = <<>> THEN "" ELSE "/" \o Head(segs) \o JoinSegs(Tail(segs))

\* Path.resolve() of an absolute path, as a string
ResolveSegs(segs) == IF segs = <<>> THEN "/" ELSE JoinSegs(segs)

\* Path(a) / b : an absolute b replaces a
PathJoin(a, b) == IF StartsWith(b, "/") THEN b ELSE a \o "/" \o b

\* self.base_path, resolved
BasePath == "/srv/repos"

MetadataName == ".atlantis-metadata.json"

\* str(uuid.uuid4()): the n-th identifier handed out
IdOf(n) == "u" \o Digits[n]

\* identifier strings a caller may pass besides the ones handed out: one
\* never handed out, the empty string, one that leaves the store root
\* sideways, one that leaves it upwards
StrangeIds == {"ghost", "", "../repos2", "../../etc"}

\* every identifier string of the model
AllIds == { IdOf(n) : n \in 1..MaxRepos } \cup StrangeIds

\* every relative file path of the model: inside the repository, up and out
\* of the store root, into a sibling of the store root, and into another
\* repository's directory
AllRelPaths ==
    {"README.md", "n.txt", MetadataName, "../../../etc/passwd", "../../repos2/n.txt"}
    \cup { "../" \o IdOf(n) \o "/n.txt" : n \in 1..MaxRepos }

\* what pathlib computes for a path of resolved segments segs: its resolved
\* form, the resolved parent, the resolved path with every directory above
\* it, and the last segment
SegFacts(segs) ==
    [resolved  |-> ResolveSegs(segs),
     parent    |-> IF Len(segs) <= 1 THEN "/"
                   ELSE JoinSegs(SubSeq(segs, 1, Len(segs) - 1)),
     ancestors |-> {"/"} \cup { JoinSegs(SubSeq(segs, 1, n)) : n \in 1..Len(segs) },
     name      |-> IF segs = <<>> THEN "" ELSE segs[Len(segs)]]

PathFacts(p) == SegFacts(Normalize(SplitPath(p, "", <<>>), <<>>))

\* a set of paths with the resolved form of each
WithResolved(S) == S \cup { PathFacts(q).resolved : q \in S }

\* a set of paths with every directory above each
WithAncestors(S) == S \cup UNION { PathFacts(q).ancestors : q \in S }

\* a set of directories with every file path of the model joined to each
WithFiles(S) == S \cup { PathJoin(d, f) : d \in S, f \in AllRelPaths }

\* the paths the calls of the model work on, and PathFacts tabulated on them
KnownPaths ==
    WithAncestors(WithResolved(WithFiles(WithResolved(
        {BasePath} \cup { PathJoin(BasePath, id) : id \in AllIds }))))

PathTable == [p \in KnownPaths |-> PathFacts(p)]

Resolve(p) == PathTable[p].resolved

\* Path.parent of a resolved path
ParentOf(p) == PathTable[p].parent

\* the resolved path and every directory above it
Ancestors(p) == PathTable[p].ancestors

\* Path.name: the last segment
PathName(p) == PathTable[p].name

\* p is d or lies in the directory tree below d (both resolved)
IsUnder(p, d) == d \in Ancestors(p)

\* the path of p relative to the directory d it lies under
RelTo(p, d) == SubSeq(p, Len(d) + 2, Len(p))

\* _validate_path_security: TRUE when the path is let through
ValidatePathSecurity(path) == StartsWith(Resolve(path), Resolve(BasePath))

\* _get_repo_path (unresolved, as the code returns it)
GetRepoPath(repo_id) == PathJoin(BasePath, repo_id)

(***************************************************************************)
(* The file system.  A world w is [dirs, files, git].                      *)
(***************************************************************************)
NoneVal == "<None>"

EmptyMap == [x \in {} |-> ""]

Restrict(f, S) == [x \in S |-> f[x]]

\* f with key k bound to v (k may be new)
MapPut(f, k, v) == [x \in DOMAIN f \cup {k} |-> IF x = k THEN v ELSE f[x]]

World == [dirs |-> fsDirs, files |-> fsFiles, git |-> git]

\* Path.exists()
Exists(w, p) == p \in w.dirs \/ p \in DOMAIN w.files

\* shutil.rmtree(p)
RmTree(w, p) ==
    [dirs  |-> { d \in w.dirs : ~IsUnder(d, p) },
     files |-> Restrict(w.files, { f \in DOMAIN w.files : ~IsUnder(f, p) }),
     git   |-> Restrict(w.git, { d \in DOMAIN w.git : ~IsUnder(d, p) })]

\* Path.mkdir(parents=True, exist_ok=True)
MkdirP(w, p) == [w EXCEPT !.dirs = @ \cup Ancestors(p)]

\* the bytes a text-mode write stores: '\n' becomes os.linesep, which is '\n'
RECURSIVE EncodeText(_)
EncodeText(s) ==
    IF s = "" THEN ""
    ELSE (IF Head(s) = "\n" THEN "\n" ELSE Head(s)) \o EncodeText(Tail(s))

\* the text a text-mode read returns: universal newlines turn '\r\n' and
\* '\r' into '\n'
RECURSIVE DecodeText(_)
DecodeText(b) ==
    IF b = "" THEN ""
    ELSE IF Head(b) = "\r"
         THEN IF Len(b) >= 2 /\ SubSeq(b, 2, 2) = "\n"
              THEN "\n" \o DecodeText(SubSeq(b, 3, Len(b)))
              ELSE "\n" \o DecodeText(Tail(b))
         ELSE Head(b) \o DecodeText(Tail(b))

\* Path.write_text(text) on an existing directory tree
WriteText(w, p, text) == [w EXCEPT !.files = MapPut(@, p, EncodeText(text))]

\* the regular files below directory d, by their path relative to d
WorkTree(w, d) ==
    LET fs == { f \in DOMAIN w.files : IsUnder(f, d) /\ f # d }
    IN  [r \in { RelTo(f, d) : f \in fs } |-> w.files[PathJoin(d, r)]]

RECURSIVE SumSizes(_, _)
SumSizes(f, S) ==
    IF S = {} THEN 0
    ELSE LET x == CHOOSE y \in S : TRUE
         IN  Len(f[x]) + SumSizes(f, S \ {x})

(***************************************************************************)
(* The Git engine (GitPython's Repo) as the service uses it.  A            *)
(* repository g is [bare, commits, branches, head, index, user, remotes];  *)
(* a commit is [message, author, parents, tree]; a commit's hash is its    *)
(* position in g.commits.                                                  *)
(***************************************************************************)
DefaultBranch == "main"

NoUser == [name |-> NoneVal, email |-> NoneVal]

SystemUser == [name |-> "Atlantis", email |-> "atlantis@example.com"]

EmptyRepo(bare) ==
    [bare |-> bare, commits |-> <<>>, branches |-> EmptyMap, head |-> DefaultBranch,
     index |-> EmptyMap, user |-> NoUser, remotes |-> {}]

HashOf(n) == "c" \o Digits[n]

\* the commit HEAD points at, 0 when the current branch is unborn
HeadCommit(g) == IF g.head \in DOMAIN g.branches THEN g.branches[g.head] ELSE 0

TreeOf(g, n) == IF n = 0 THEN EmptyMap ELSE g.commits[n].tree

\* the entry of path p in map m, NoneVal when there is none
At(m, p) == IF p \in DOMAIN m THEN m[p] ELSE NoneVal

\* bytes the .git directory of g takes on disk
GitDirBytes(g) == 16 + 8 * Len(g.commits)

\* Repo.init(path, bare=...)
EngineInit(w, path, bare) ==
    LET w1 == MkdirP(w, path)
    IN  [w1 EXCEPT !.git = MapPut(@, path, EmptyRepo(bare))]

\* repo.index.add(paths): stage the working-tree bytes of each path
IndexAdd(g, wt, paths) ==
    [g EXCEPT !.index = [p \in DOMAIN g.index \cup paths |->
                            IF p \in paths THEN wt[p] ELSE g.index[p]]]

\* repo.index.commit(message): a commit of the index on top of HEAD, made
\* whether or not the tree differs from the parent's
IndexCommit(g, message) ==
    LET parent == HeadCommit(g)
        c == [message |-> message,
              author  |-> g.user,
              parents |-> IF parent = 0 THEN <<>> ELSE <<parent>>,
              tree    |-> g.index]
    IN  [g EXCEPT !.commits = Append(@, c),
                  !.branches = MapPut(@, g.head, Len(g.commits) + 1)]

\* what a clone URL names: whether the remote answers, and its one commit
Remote(url) ==
    IF url = "https://h/big.git"
    THEN [tree |-> [p \in {"README.md"} |->
                      "0123456789012345678901234567890123456789012345678901234567890123456789012345678901234567890123456789"]]
    ELSE IF url = "https://h/edge.git"
    THEN [tree |-> [p \in {"README.md"} |->
                      "012345678901234567890123456789012345678901234567890123456789012345678901234567890123456789012345"]]
    ELSE [tree |-> [p \in {"README.md"} |-> "# up\n"]]

\* Repo.clone_from(url, path, bare=...) when the remote answers
EngineClone(w, url, path, bare) ==
    LET tree == Remote(url).tree
        c  == [message |-> "upstream\n", author |-> [name |-> "Up", email |-> "up@h"],
               parents |-> <<>>, tree |-> tree]
        g  == [bare |-> bare, commits |-> <<c>>,
               branches |-> [b \in {DefaultBranch} |-> 1], head |-> DefaultBranch,
               index |-> IF bare THEN EmptyMap ELSE tree,
               user |-> NoUser, remotes |-> {"origin"}]
        w1 == MkdirP(w, path)
        w2 == IF bare THEN w1
              ELSE [w1 EXCEPT !.files =
                       [f \in DOMAIN w1.files \cup { PathJoin(path, p) : p \in DOMAIN tree } |->
                          IF f \in DOMAIN w1.files THEN w1.files[f]
                          ELSE tree[RelTo(f, path)]]]
    IN  [w2 EXCEPT !.git = MapPut(@, path, g)]

(***************************************************************************)
(* Checks of the service.                                                  *)
(***************************************************************************)
\* _validate_repo_url: TRUE when the URL is let through
ValidateRepoUrl(url) ==
    /\ \E scheme \in settings.GIT_ALLOWED_SCHEMES : StartsWith(url, scheme)
    /\ ~StartsWith(url, "file://")
    /\ ~(Contains(url, "..") \/ StartsWith(url, "/"))

\* the name test of create_repository: TRUE when the name is accepted
ValidName(name) ==
    name # "" /\ IsAlnum(RemoveChar(RemoveChar(name, "-"), "_"))

\* _get_repo_size_mb, in bytes: every file below the directory, .git included
RepoSizeBytes(w, path) ==
    SumSizes(w.files, { f \in DOMAIN w.files : IsUnder(f, path) })
    + (IF path \in DOMAIN w.git THEN GitDirBytes(w.git[path]) ELSE 0)

\* _check_repository_size: TRUE when the size is within the limit
CheckRepositorySize(w, path) == ~(RepoSizeBytes(w, path) > settings.GIT_MAX_REPO_SIZE)

\* _check_file_size: TRUE when the file is absent or within the limit
CheckFileSize(w, p) ==
    p \in DOMAIN w.files => ~(Len(w.files[p]) > settings.GIT_MAX_FILE_SIZE)

\* _get_repo: the error kind it raises, "none" when it returns the Repo
GetRepoErr(w, repo_id) ==
    LET path == GetRepoPath(repo_id) IN
    IF ~ValidatePathSecurity(path) THEN "SecurityError"
    ELSE IF ~Exists(w, Resolve(path)) THEN "RepositoryNotFoundError"
    ELSE IF Resolve(path) \notin DOMAIN w.git THEN "InvalidRepositoryError"
    ELSE "none"

(***************************************************************************)
(* The sidecar metadata file.                                              *)
(***************************************************************************)
\* json.dumps({"name": name, "url": url}) for strings that need no escape
MetaJson(name, url) ==
    "{\"name\": \"" \o name \o "\", \"url\": \"" \o url \o "\"}"

\* the part of s before the first occurrence of character ch (all of s if none)
RECURSIVE UpTo(_, _)
UpTo(s, ch) ==
    IF s = "" \/ Head(s) = ch THEN "" ELSE Head(s) \o UpTo(Tail(s), ch)

\* json.loads of the sidecar text: [ok, name, url]; ok is FALSE when the
\* text is not an object of that shape
ParseMeta(text) ==
    LET p1 == "{\"name\": \""
        p2 == "\", \"url\": \""
        p3 == "\"}"
        r1 == SubSeq(text, Len(p1) + 1, Len(text))
        nm == UpTo(r1, "\"")
        r2 == SubSeq(r1, Len(nm) + 1, Len(r1))
        r3 == SubSeq(r2, Len(p2) + 1, Len(r2))
        ur == UpTo(r3, "\"")
        r4 == SubSeq(r3, Len(ur) + 1, Len(r3))
    IN  IF StartsWith(text, p1) /\ StartsWith(r2, p2) /\ r4 = p3
        THEN [ok |-> TRUE, name |-> nm, url |-> ur]
        ELSE [ok |-> FALSE, name |-> "", url |-> ""]

(***************************************************************************)
(* get_repository_info                                                     *)
(***************************************************************************)
\* repo.is_dirty(): index against HEAD, tracked files against the index;
\* untracked files do not count
IsDirty(w, path) ==
    LET g  == w.git[path]
        wt == WorkTree(w, path)
    IN  /\ ~g.bare
        /\ \/ g.index # TreeOf(g, HeadCommit(g))
           \/ \E p \in DOMAIN g.index : At(wt, p) # g.index[p]

AuthorString(u) == u.name \o " <" \o u.email \o ">"

\* a faulty variant of the record: default_branch is the branch the
\* repository was created with
InfoRecordFixedDefault(w, repo_id) ==
    LET path == Resolve(GetRepoPath(repo_id))
        g    == w.git[path]
        mp   == PathJoin(path, MetadataName)
        meta == IF mp \in DOMAIN w.files
                THEN ParseMeta(DecodeText(w.files[mp]))
                ELSE [ok |-> FALSE, name |-> "", url |-> ""]
        hc   == HeadCommit(g)
        seen == ~g.bare /\ hc # 0
    IN  [id |-> repo_id,
         name |-> IF meta.ok THEN meta.name ELSE PathName(path),
         url |-> IF meta.ok THEN meta.url ELSE "",
         local_path |-> GetRepoPath(repo_id),
         default_branch |-> DefaultBranch,
         current_branch |-> IF g.bare THEN "main" ELSE g.head,
         is_bare |-> g.bare,
         is_dirty |-> IsDirty(w, path),
         last_commit_hash |-> IF seen THEN HashOf(hc) ELSE NoneVal,
         last_commit_message |-> IF seen THEN Strip(g.commits[hc].message) ELSE NoneVal,
         last_commit_author |-> IF seen THEN AuthorString(g.commits[hc].author) ELSE NoneVal]

\* the record get_repository_info builds once the repository is open
InfoRecord(w, repo_id) ==
    LET path == Resolve(GetRepoPath(repo_id))
        g    == w.git[path]
        mp   == PathJoin(path, MetadataName)
        meta == IF mp \in DOMAIN w.files
                THEN ParseMeta(DecodeText(w.files[mp]))
                ELSE [ok |-> FALSE, name |-> "", url |-> ""]
        hc   == HeadCommit(g)
        seen == ~g.bare /\ hc # 0
    IN  [id |-> repo_id,
         name |-> IF meta.ok THEN meta.name ELSE PathName(path),
         url |-> IF meta.ok THEN meta.url ELSE "",
         local_path |-> GetRepoPath(repo_id),
         default_branch |-> IF g.bare THEN "main" ELSE g.head,
         current_branch |-> IF g.bare THEN "main" ELSE g.head,
         is_bare |-> g.bare,
         is_dirty |-> IsDirty(w, path),
         last_commit_hash |-> IF seen THEN HashOf(hc) ELSE NoneVal,
         last_commit_message |-> IF seen THEN Strip(g.commits[hc].message) ELSE NoneVal,
         last_commit_author |-> IF seen THEN AuthorString(g.commits[hc].author) ELSE NoneVal]

\* a faulty variant of get_repository_info: a sidecar that does not parse
\* is an error
GetInfoErrStrict(w, repo_id) ==
    LET e    == GetRepoErr(w, repo_id)
        path == Resolve(GetRepoPath(repo_id))
        mp   == PathJoin(path, MetadataName)
    IN  IF e # "none" THEN e
        ELSE IF ~w.git[path].bare /\ ~CheckRepositorySize(w, path) THEN "GitOperationError"
        ELSE IF mp \in DOMAIN w.files /\ ~ParseMeta(DecodeText(w.files[mp])).ok
        THEN "JSONDecodeError"
        ELSE "none"

\* the error kind get_repository_info raises, "none" when it returns
GetInfoErr(w, repo_id) ==
    LET e    == GetRepoErr(w, repo_id)
        path == Resolve(GetRepoPath(repo_id))
    IN  IF e # "none" THEN e
        ELSE IF ~w.git[path].bare /\ ~CheckRepositorySize(w, path) THEN "GitOperationError"
        ELSE "none"

(***************************************************************************)
(* The calls.  Every action is one whole call of a public method; it       *)
(* records the call and its outcome in last.                               *)
(***************************************************************************)
\* id is the repository identifier (the name for create); arg, data and opt
\* are the other arguments in the order of the signature
Call(op, id, arg, data, opt, err, ret) ==
    [op |-> op, id |-> id, arg |-> arg, data |-> data, opt |-> opt,
     err |-> err, ret |-> ret]

SetWorld(w) ==
    /\ fsDirs' = w.dirs
    /\ fsFiles' = w.files
    /\ git' = w.git

AllocatedIds == { IdOf(n) : n \in 1..nextId }

ReadmeText(name) == "# " \o name \o "\n\nInitial repository created by Atlantis.\n"

\* lines 186-193 of create_repository, on the world w2 that holds the seed
\* file: configure the identity, stage README.md, commit
SeedCommit(w2, path, fault) ==
    IF fault = "commit"
    THEN [w |-> [w2 EXCEPT !.git[path].user = SystemUser], exc |-> "GitCommandError"]
    ELSE [w |-> [w2 EXCEPT !.git[path] =
                    IndexCommit(IndexAdd([@ EXCEPT !.user = SystemUser],
                                         WorkTree(w2, path), {"README.md"}),
                                "Initial commit")],
          exc |-> "none"]

\* the clone or the initialisation of create_repository: the world it
\* leaves and the exception that ends it ("none" when it goes on).  fault
\* names the step at which the engine or the disk fails, if any.
CreateRepo(w, path, name, url, init_bare, fault) ==
    IF url # ""
    THEN IF ~ValidateRepoUrl(url) THEN [w |-> w, exc |-> "SecurityError"]
         ELSE IF fault = "clone" THEN [w |-> w, exc |-> "GitCommandError"]
         ELSE IF fault = "clone_partial"
              THEN [w |-> MkdirP(w, path), exc |-> "GitCommandError"]
         ELSE [w |-> EngineClone(w, url, path, init_bare), exc |-> "none"]
    ELSE IF fault = "init" THEN [w |-> MkdirP(w, path), exc |-> "GitCommandError"]
    ELSE IF init_bare THEN [w |-> EngineInit(w, path, TRUE), exc |-> "none"]
    ELSE SeedCommit(WriteText(EngineInit(w, path, FALSE), PathJoin(path, "README.md"),
                              ReadmeText(name)),
                    path, fault)

\* the last step of create_repository, on the world w3 that holds the
\* sidecar: build the record to return
CreateReturn(w3, repo_id, fault) ==
    [w |-> w3, exc |-> IF fault = "info" THEN "OSError" ELSE GetInfoErr(w3, repo_id)]

\* lines 195-206 of create_repository, after the clone or initialisation
\* made: the size check, the sidecar, the record
CreateFinish(made, repo_id, path, name, url, init_bare, fault) ==
    IF made.exc # "none" THEN made
    ELSE IF ~init_bare /\ ~CheckRepositorySize(made.w, path)
         THEN [w |-> made.w, exc |-> "GitOperationError"]
    ELSE IF fault = "sidecar" THEN [w |-> made.w, exc |-> "OSError"]
    ELSE CreateReturn(WriteText(made.w, PathJoin(path, MetadataName), MetaJson(name, url)),
                      repo_id, fault)

\* the body of the try block of create_repository: the world it leaves and
\* the exception that ends it ("none" when it returns)
CreateTry(w, repo_id, name, url, init_bare, fault) ==
    CreateFinish(CreateRepo(w, Resolve(GetRepoPath(repo_id)), name, url, init_bare, fault),
                 repo_id, Resolve(GetRepoPath(repo_id)), name, url, init_bare, fault)

\* a faulty variant of the cleanup: only the engine's own errors remove the
\* directory
CreateCleanupEngineOnly(w, repo_id, exc) ==
    LET path == Resolve(GetRepoPath(repo_id))
    IN  IF exc = "GitCommandError" /\ Exists(w, path) THEN RmTree(w, path) ELSE w

\* the except clauses of create_repository: both remove the directory
CreateCleanup(w, repo_id, exc) ==
    LET path == Resolve(GetRepoPath(repo_id))
    IN  IF Exists(w, path) THEN RmTree(w, path) ELSE w

create_repository(name, url, init_bare, fault) ==
    IF ~ValidName(name)
    THEN /\ last' = Call("create", name, url, init_bare, fault, "GitOperationError", NoneVal)
         /\ UNCHANGED <<fsDirs, fsFiles, git, settings, nextId, environ, frames>>
    ELSE /\ nextId < MaxRepos
         /\ \E repo_id \in {IdOf(nextId + 1)} :
            \E t \in {CreateTry(World, repo_id, name, url, init_bare, fault)} :
               IF t.exc = "none"
               THEN /\ SetWorld(t.w)
                    /\ nextId' = nextId + 1
                    /\ last' = Call("create", name, url, init_bare, fault, "none", repo_id)
               ELSE \E w \in {CreateCleanup(t.w, repo_id, t.exc)} :
                    /\ SetWorld(w)
                    /\ nextId' = IF Exists(w, Resolve(GetRepoPath(repo_id)))
                                 THEN nextId + 1 ELSE nextId
                    /\ last' = Call("create", name, url, init_bare, fault,
                                    "GitOperationError", NoneVal)
         /\ UNCHANGED <<settings, environ, frames>>

get_repository_info(repo_id) ==
    /\ \E e \in {GetInfoErr(World, repo_id)} :
          last' = Call("get", repo_id, "", "", "", e,
                       IF e = "none" THEN InfoRecord(World, repo_id) ELSE NoneVal)
    /\ UNCHANGED <<fsDirs, fsFiles, git, settings, nextId, environ, frames>>

delete_repository(repo_id) ==
    LET path == Resolve(GetRepoPath(repo_id)) IN
    IF ~ValidatePathSecurity(GetRepoPath(repo_id))
    THEN /\ last' = Call("delete", repo_id, "", "", "", "SecurityError", NoneVal)
         /\ UNCHANGED <<fsDirs, fsFiles, git, settings, nextId, environ, frames>>
    ELSE IF ~Exists(World, path)
    THEN /\ last' = Call("delete", repo_id, "", "", "", "RepositoryNotFoundError", NoneVal)
         /\ UNCHANGED <<fsDirs, fsFiles, git, settings, nextId, environ, frames>>
    ELSE IF path \in DOMAIN fsFiles
    THEN /\ last' = Call("delete", repo_id, "", "", "", "GitOperationError", NoneVal)
         /\ UNCHANGED <<fsDirs, fsFiles, git, settings, nextId, environ, frames>>
    ELSE /\ SetWorld(RmTree(World, path))
         /\ last' = Call("delete", repo_id, "", "", "", "none", NoneVal)
         /\ UNCHANGED <<settings, nextId, environ, frames>>

\* a directory on the way to p is taken by a regular file
BlockedByFile(w, p) == \E a \in Ancestors(ParentOf(p)) : a \in DOMAIN w.files

\* the body of the try block of write_file: the world it leaves and the
\* exception that ends it ("none" when it returns)
WriteFileTry(w, repo_id, file_path, content) ==
    LET wd   == Resolve(GetRepoPath(repo_id))
        full == PathJoin(wd, file_path)
        dest == Resolve(full)
    IN  IF ~ValidatePathSecurity(full) THEN [w |-> w, exc |-> "SecurityError"]
        ELSE IF BlockedByFile(w, dest) THEN [w |-> w, exc |-> "OSError"]
        ELSE LET w1 == MkdirP(w, ParentOf(dest)) IN
             IF dest \in w1.dirs THEN [w |-> w1, exc |-> "OSError"]
             ELSE LET w2 == WriteText(w1, dest, content) IN
                  IF ~CheckFileSize(w2, dest) THEN [w |-> w2, exc |-> "GitOperationError"]
                  ELSE [w |-> w2, exc |-> "none"]

\* the except clause of write_file: the error kind the caller sees
WriteFileRaise(exc) == "GitOperationError"

\* a faulty variant of write_file: the repository is not tested for bare
WriteFileUnguarded(repo_id, file_path, content) ==
    LET e == GetRepoErr(World, repo_id) IN
    IF e # "none"
    THEN /\ last' = Call("write_file", repo_id, file_path, content, "", e, NoneVal)
         /\ UNCHANGED <<fsDirs, fsFiles, git, settings, nextId, environ, frames>>
    ELSE LET t == WriteFileTry(World, repo_id, file_path, content) IN
         /\ SetWorld(t.w)
         /\ last' = Call("write_file", repo_id, file_path, content, "",
                         IF t.exc = "none" THEN "none" ELSE WriteFileRaise(t.exc), NoneVal)
         /\ UNCHANGED <<settings, nextId, environ, frames>>

write_file(repo_id, file_path, content) ==
    LET e == GetRepoErr(World, repo_id) IN
    IF e # "none"
    THEN /\ last' = Call("write_file", repo_id, file_path, content, "", e, NoneVal)
         /\ UNCHANGED <<fsDirs, fsFiles, git, settings, nextId, environ, frames>>
    ELSE IF git[Resolve(GetRepoPath(repo_id))].bare
    THEN /\ last' = Call("write_file", repo_id, file_path, content, "", "GitOperationError", NoneVal)
         /\ UNCHANGED <<fsDirs, fsFiles, git, settings, nextId, environ, frames>>
    ELSE LET t == WriteFileTry(World, repo_id, file_path, content) IN
         /\ SetWorld(t.w)
         /\ last' = Call("write_file", repo_id, file_path, content, "",
                         IF t.exc = "none" THEN "none" ELSE WriteFileRaise(t.exc), NoneVal)
         /\ UNCHANGED <<settings, nextId, environ, frames>>

\* a faulty variant of read_file: the working tree is read whatever
\* commit_hash is
ReadFileResultWorkTree(w, repo_id, file_path, commit_hash) ==
    LET wd   == Resolve(GetRepoPath(repo_id))
        full == PathJoin(wd, file_path)
        dest == Resolve(full)
    IN  IF w.git[wd].bare THEN [err |-> "GitOperationError", ret |-> NoneVal]
        ELSE IF ~ValidatePathSecurity(full) THEN [err |-> "SecurityError", ret |-> NoneVal]
        ELSE IF ~Exists(w, dest) THEN [err |-> "GitOperationError", ret |-> NoneVal]
        ELSE IF dest \in w.dirs THEN [err |-> "OSError", ret |-> NoneVal]
        ELSE [err |-> "none", ret |-> DecodeText(w.files[dest])]

\* read_file once the repository is open: [err, ret]
ReadFileResult(w, repo_id, file_path, commit_hash) ==
    LET wd   == Resolve(GetRepoPath(repo_id))
        g    == w.git[wd]
        full == PathJoin(wd, file_path)
        dest == Resolve(full)
        n    == CHOOSE k \in 1..Len(g.commits) : HashOf(k) = commit_hash
    IN  IF g.bare THEN [err |-> "GitOperationError", ret |-> NoneVal]
        ELSE IF ~ValidatePathSecurity(full) THEN [err |-> "SecurityError", ret |-> NoneVal]
        ELSE IF commit_hash # ""
        THEN IF ~\E k \in 1..Len(g.commits) : HashOf(k) = commit_hash
             THEN [err |-> "BadName", ret |-> NoneVal]
             ELSE IF file_path \notin DOMAIN g.commits[n].tree
             THEN [err |-> "GitOperationError", ret |-> NoneVal]
             ELSE [err |-> "none", ret |-> g.commits[n].tree[file_path]]
        ELSE IF ~Exists(w, dest) THEN [err |-> "GitOperationError", ret |-> NoneVal]
        ELSE IF dest \in w.dirs THEN [err |-> "OSError", ret |-> NoneVal]
        ELSE [err |-> "none", ret |-> DecodeText(w.files[dest])]

read_file(repo_id, file_path, commit_hash) ==
    LET e == GetRepoErr(World, repo_id)
        r == IF e # "none" THEN [err |-> e, ret |-> NoneVal]
             ELSE ReadFileResult(World, repo_id, file_path, commit_hash)
    IN  /\ last' = Call("read_file", repo_id, file_path, commit_hash, "", r.err, r.ret)
        /\ UNCHANGED <<fsDirs, fsFiles, git, settings, nextId, environ, frames>>

\* the files argument of create_commit: None, or a list of paths
NoFiles == [given |-> FALSE, list |-> <<>>]

FileList(l) == [given |-> TRUE, list |-> l]

SeqToSet(q) == { q[i] : i \in 1..Len(q) }

\* repo.untracked_files: working-tree files the index does not hold
UntrackedFiles(g, wt) == DOMAIN wt \ DOMAIN g.index

\* repo.index.diff(None): indexed paths whose working-tree file differs or is gone
ModifiedFiles(g, wt) == { p \in DOMAIN g.index : At(wt, p) # g.index[p] }

\* a faulty variant of the staging step: nothing is staged
StageFilesNothing(w, wd, files) == [g |-> w.git[wd], exc |-> "none"]

\* a faulty variant of the staging step: a list of files, empty or not, is
\* staged as it is given
StageFilesAsListed(w, wd, files) ==
    LET g  == w.git[wd]
        wt == WorkTree(w, wd)
    IN  IF files.given
        THEN [g |-> IndexAdd(g, wt, SeqToSet(files.list) \cap DOMAIN wt), exc |-> "none"]
        ELSE [g |-> IndexAdd(IndexAdd(g, wt, UntrackedFiles(g, wt)), wt,
                             ModifiedFiles(g, wt) \cap DOMAIN wt),
              exc |-> "none"]

\* the staging step of create_commit: the repository it leaves and the
\* exception that ends it
StageFiles(w, wd, files) ==
    LET g  == w.git[wd]
        wt == WorkTree(w, wd)
    IN  IF files.given /\ files.list # <<>>
        THEN IF \E f \in SeqToSet(files.list) : ~ValidatePathSecurity(PathJoin(wd, f))
             THEN [g |-> g, exc |-> "SecurityError"]
             ELSE IF \E f \in SeqToSet(files.list) : f \notin DOMAIN wt
             THEN [g |-> g, exc |-> "OSError"]
             ELSE [g |-> IndexAdd(g, wt, SeqToSet(files.list)), exc |-> "none"]
        ELSE LET g1 == IndexAdd(g, wt, UntrackedFiles(g, wt))
                 md == ModifiedFiles(g1, wt)
             IN  IF \E f \in md : f \notin DOMAIN wt
                 THEN [g |-> g1, exc |-> "OSError"]
                 ELSE [g |-> IndexAdd(g1, wt, md), exc |-> "none"]

\* the identity create_commit writes to the repository configuration
CommitUser(author_name, author_email) ==
    IF author_name \notin {NoneVal, ""} /\ author_email \notin {NoneVal, ""}
    THEN [name |-> author_name, email |-> author_email]
    ELSE SystemUser

create_commit(repo_id, message, files, author_name, author_email) ==
    LET e   == GetRepoErr(World, repo_id)
        wd  == Resolve(GetRepoPath(repo_id))
        who == [name |-> author_name, email |-> author_email]
    IN
    IF e # "none"
    THEN /\ last' = Call("create_commit", repo_id, files, message, who, e, NoneVal)
         /\ UNCHANGED <<fsDirs, fsFiles, git, settings, nextId, environ, frames>>
    ELSE IF git[wd].bare
    THEN /\ last' = Call("create_commit", repo_id, files, message, who, "GitOperationError", NoneVal)
         /\ UNCHANGED <<fsDirs, fsFiles, git, settings, nextId, environ, frames>>
    ELSE LET st == StageFiles(World, wd, files) IN
         IF st.exc # "none"
         THEN /\ git' = [git EXCEPT ![wd] = st.g]
              /\ last' = Call("create_commit", repo_id, files, message, who, st.exc, NoneVal)
              /\ UNCHANGED <<fsDirs, fsFiles, settings, nextId, environ, frames>>
         ELSE /\ Len(git[wd].commits) < MaxCommits
              /\ LET g1 == [st.g EXCEPT !.user = CommitUser(author_name, author_email)]
                     g2 == IndexCommit(g1, message)
                 IN  /\ git' = [git EXCEPT ![wd] = g2]
                     /\ last' = Call("create_commit", repo_id, files, message, who, "none",
                                     HashOf(Len(g2.commits)))
              /\ UNCHANGED <<fsDirs, fsFiles, settings, nextId, environ, frames>>

\* repo.iter_commits(ref): the commit and its first-parent ancestry, newest first
RECURSIVE Ancestry(_, _)
Ancestry(g, n) ==
    IF n = 0 THEN <<>>
    ELSE <<n>> \o Ancestry(g, IF g.commits[n].parents = <<>> THEN 0
                              ELSE g.commits[n].parents[1])

\* the changed-file list of commit n: the paths that differ from the first
\* parent's tree, or every path of the tree for a root commit
ChangedFiles(g, n) ==
    LET c == g.commits[n] IN
    IF c.parents # <<>>
    THEN LET pt == g.commits[c.parents[1]].tree
         IN  { p \in DOMAIN c.tree \cup DOMAIN pt : At(c.tree, p) # At(pt, p) }
    ELSE DOMAIN c.tree

\* GitCommitInfo of commit n
CommitInfo(g, n) ==
    [hash    |-> HashOf(n),
     message |-> Strip(g.commits[n].message),
     author  |-> AuthorString(g.commits[n].author),
     files   |-> ChangedFiles(g, n),
     parents |-> [i \in 1..Len(g.commits[n].parents) |-> HashOf(g.commits[n].parents[i])]]

\* name in repo.refs / repo.heads: GitPython finds a reference by its short name
RefsContain(g, name) == name \in DOMAIN g.branches

\* get_commits once the repository is open: [err, ret]
GetCommitsResult(w, repo_id, branch, limit, skip) ==
    LET g    == w.git[Resolve(GetRepoPath(repo_id))]
        tip  == IF branch \notin {NoneVal, ""} THEN g.branches["refs/heads/" \o branch]
                ELSE HeadCommit(g)
        line == Ancestry(g, tip)
        keep == SubSeq(line, skip + 1, IF skip + limit < Len(line) THEN skip + limit ELSE Len(line))
    IN  IF g.bare THEN [err |-> "GitOperationError", ret |-> <<>>]
        ELSE IF branch \notin {NoneVal, ""} /\ ~RefsContain(g, "refs/heads/" \o branch)
        THEN [err |-> "GitOperationError", ret |-> <<>>]
        ELSE IF tip = 0 THEN [err |-> "ValueError", ret |-> <<>>]
        ELSE [err |-> "none", ret |-> [i \in 1..Len(keep) |-> CommitInfo(g, keep[i])]]

\* get_commits with its error kinds: [err, ret]
GetCommits(w, repo_id, branch, limit, skip) ==
    LET e == GetRepoErr(w, repo_id) IN
    IF e # "none" THEN [err |-> e, ret |-> <<>>]
    ELSE GetCommitsResult(w, repo_id, branch, limit, skip)

\* the default value of limit in get_commits
DefaultLimit == 50

get_commits(repo_id, branch, limit, skip) ==
    LET r == GetCommits(World, repo_id, branch, limit, skip) IN
    /\ last' = Call("get_commits", repo_id, branch, limit, skip, r.err,
                    [i \in 1..Len(r.ret) |-> r.ret[i].hash])
    /\ UNCHANGED <<fsDirs, fsFiles, git, settings, nextId, environ, frames>>

create_branch(repo_id, branch_name, base_branch) ==
    LET e  == GetRepoErr(World, repo_id)
        wd == Resolve(GetRepoPath(repo_id))
        g  == git[wd]
        based == base_branch \notin {NoneVal, ""}
        base_ref == "refs/heads/" \o base_branch
        err == IF e # "none" THEN e
               ELSE IF g.bare THEN "GitOperationError"
               ELSE IF based /\ ~RefsContain(g, base_ref) THEN "GitOperationError"
               ELSE IF ~based /\ HeadCommit(g) = 0 THEN "ValueError"
               ELSE IF branch_name \in DOMAIN g.branches THEN "GitOperationError"
               ELSE "none"
    IN  /\ last' = Call("create_branch", repo_id, branch_name, base_branch, "", err,
                        IF err = "none" THEN branch_name ELSE NoneVal)
        /\ IF err = "none"
           THEN git' = [git EXCEPT ![wd].branches =
                           MapPut(@, branch_name,
                                  IF based THEN g.branches[base_ref] ELSE HeadCommit(g))]
           ELSE UNCHANGED git
        /\ UNCHANGED <<fsDirs, fsFiles, settings, nextId, environ, frames>>

\* the paths git checkout must rewrite to move from HEAD's tree to tree t
CheckoutPaths(g, t) ==
    LET h == TreeOf(g, HeadCommit(g))
    IN  { p \in DOMAIN h \cup DOMAIN t : At(h, p) # At(t, p) /\ At(g.index, p) # At(t, p) }

\* git checkout refuses when a path it must rewrite carries a staged or
\* working-tree change, or is an untracked file in the way
CheckoutRefused(g, wt, t) ==
    LET h == TreeOf(g, HeadCommit(g))
    IN  \E p \in CheckoutPaths(g, t) :
           At(g.index, p) # At(h, p) \/ At(wt, p) # At(g.index, p)

\* a faulty variant of the checkout: HEAD and the working tree stay put
CheckoutNothing(w, wd, name) == w

\* repo.heads[name].checkout(): the world after a checkout that is not refused
Checkout(w, wd, name) ==
    LET g    == w.git[wd]
        t    == TreeOf(g, g.branches[name])
        ps   == CheckoutPaths(g, t)
        gone == { PathJoin(wd, p) : p \in { q \in ps : q \notin DOMAIN t } }
        put  == { PathJoin(wd, p) : p \in { q \in ps : q \in DOMAIN t } }
        idx  == [p \in (DOMAIN g.index \ { q \in ps : q \notin DOMAIN t })
                       \cup { q \in ps : q \in DOMAIN t } |->
                    IF p \in ps THEN t[p] ELSE g.index[p]]
    IN  [dirs  |-> w.dirs,
         files |-> [f \in (DOMAIN w.files \ gone) \cup put |->
                      IF f \in put THEN t[RelTo(f, wd)] ELSE w.files[f]],
         git   |-> [w.git EXCEPT ![wd] = [g EXCEPT !.head = name, !.index = idx]]]

switch_branch(repo_id, branch_name) ==
    LET e  == GetRepoErr(World, repo_id)
        wd == Resolve(GetRepoPath(repo_id))
        g  == git[wd]
        err == IF e # "none" THEN e
               ELSE IF g.bare THEN "GitOperationError"
               ELSE IF branch_name \notin DOMAIN g.branches THEN "GitOperationError"
               ELSE IF CheckoutRefused(g, WorkTree(World, wd), TreeOf(g, g.branches[branch_name]))
               THEN "GitOperationError"
               ELSE "none"
    IN  /\ last' = Call("switch_branch", repo_id, branch_name, "", "", err, NoneVal)
        /\ IF err = "none" THEN SetWorld(Checkout(World, wd, branch_name))
           ELSE UNCHANGED <<fsDirs, fsFiles, git>>
        /\ UNCHANGED <<settings, nextId, environ, frames>>

(***************************************************************************)
(* create_commit, statement by statement.  Each request runs in a thread   *)
(* of its own on a Repo object of its own; the index, the configuration    *)
(* and HEAD are files of the one repository directory.                     *)
(***************************************************************************)
\* the frame of a thread inside create_commit: where it stands, its
\* arguments, the branch that was checked out when the call began, and
\* whether another call wrote its identity to the configuration after this
\* call wrote its own
IdleCommit ==
    [pc |-> "idle", id |-> "", files |-> NoFiles, message |-> "",
     who |-> NoUser, began_on |-> "", clobbered |-> FALSE]

\* the config_writer block of create_commit
ConfigWrite(g, f) == [g EXCEPT !.user = CommitUser(f.who.name, f.who.email)]

\* a faulty variant of the commit statement: the commit carries the
\* caller's identity whatever the configuration holds
CommitFinishAsCaller(g, f) == IndexCommit(ConfigWrite(g, f), f.message)

\* a faulty variant of the commit statement: the commit goes to the branch
\* that was checked out when the call began
CommitFinishWhereBegan(g, f) ==
    [IndexCommit([g EXCEPT !.head = f.began_on], f.message) EXCEPT !.head = g.head]

\* repo.index.commit(message) of create_commit
CommitFinish(g, f) == IndexCommit(g, f.message)

\* thread t calls create_commit and runs it through the staging
create_commit_stage(t, repo_id, message, files, author_name, author_email) ==
    LET e   == GetRepoErr(World, repo_id)
        wd  == Resolve(GetRepoPath(repo_id))
        who == [name |-> author_name, email |-> author_email]
    IN
    /\ frames[t].pc = "idle"
    /\ IF e # "none"
       THEN /\ last' = Call("create_commit", repo_id, files, message, who, e, NoneVal)
            /\ UNCHANGED <<git, frames>>
       ELSE IF git[wd].bare
       THEN /\ last' = Call("create_commit", repo_id, files, message, who,
                            "GitOperationError", NoneVal)
            /\ UNCHANGED <<git, frames>>
       ELSE \E st \in {StageFiles(World, wd, files)} :
            /\ git' = [git EXCEPT ![wd] = st.g]
            /\ IF st.exc # "none"
               THEN /\ last' = Call("create_commit", repo_id, files, message, who,
                                    st.exc, NoneVal)
                    /\ UNCHANGED frames
               ELSE /\ frames' = [frames EXCEPT ![t] =
                                    [pc |-> "staged", id |-> repo_id, files |-> files,
                                     message |-> message, who |-> who,
                                     began_on |-> git[wd].head, clobbered |-> FALSE]]
                    /\ UNCHANGED last
    /\ UNCHANGED <<fsDirs, fsFiles, settings, nextId, environ>>

\* thread t writes its identity to the repository configuration
create_commit_config(t) ==
    /\ frames[t].pc = "staged"
    /\ \E wd \in {Resolve(GetRepoPath(frames[t].id))} :
       \E g \in {ConfigWrite(git[wd], frames[t])} :
          /\ git' = [git EXCEPT ![wd] = g]
          /\ frames' = [u \in DOMAIN frames |->
                          IF u = t THEN [frames[t] EXCEPT !.pc = "configured"]
                          ELSE IF /\ frames[u].pc = "configured"
                                  /\ frames[u].id = frames[t].id
                                  /\ g.user # git[wd].user
                          THEN [frames[u] EXCEPT !.clobbered = TRUE]
                          ELSE frames[u]]
    /\ UNCHANGED <<fsDirs, fsFiles, settings, nextId, environ, last>>

\* thread t commits the index and returns the hash
create_commit_commit(t) ==
    /\ frames[t].pc = "configured"
    /\ \E wd \in {Resolve(GetRepoPath(frames[t].id))} :
          /\ Len(git[wd].commits) < MaxCommits
          /\ \E g \in {CommitFinish(git[wd], frames[t])} :
                /\ git' = [git EXCEPT ![wd] = g]
                /\ last' = Call("create_commit", frames[t].id, frames[t].files,
                                frames[t].message, frames[t].who, "none",
                                [hash |-> HashOf(Len(g.commits)),
                                 began_on |-> frames[t].began_on,
                                 clobbered |-> frames[t].clobbered])
    /\ frames' = [frames EXCEPT ![t] = IdleCommit]
    /\ UNCHANGED <<fsDirs, fsFiles, settings, nextId, environ>>

(***************************************************************************)
(* list_repositories                                                       *)
(***************************************************************************)
\* uuid.UUID(s) accepts s: the identifiers of the model stand for the
\* strings uuid4 produces, every other string of the model is rejected
IsUuid(s) == \E n \in 1..Len(Digits) : s = IdOf(n)

\* base_path.iterdir() filtered by is_dir(): the names of the directories
\* directly below the store root
SubdirNames(w) ==
    { PathName(d) : d \in { x \in w.dirs : x # Resolve(BasePath) /\ ParentOf(x) = Resolve(BasePath) } }

\* the identifiers of the records list_repositories collects: a name that
\* is no UUID is skipped, and so is one whose get_repository_info raises,
\* whatever the exception
ListedIds(w) ==
    { name \in SubdirNames(w) : IsUuid(name) /\ GetInfoErr(w, name) = "none" }

\* list_repositories: [err, ret]; iterdir raises when the store root is gone
ListRepositories(w) ==
    IF Resolve(BasePath) \notin w.dirs
    THEN [err |-> "FileNotFoundError", ret |-> {}]
    ELSE [err |-> "none", ret |-> { InfoRecord(w, name) : name \in ListedIds(w) }]

list_repositories ==
    /\ \E r \in {ListRepositories(World)} :
          last' = Call("list", "", "", "", "", r.err, { x.id : x \in r.ret })
    /\ UNCHANGED <<fsDirs, fsFiles, git, settings, nextId, environ, frames>>

(***************************************************************************)
(* get_commit_details and get_status                                       *)
(***************************************************************************)
\* get_commit_details once the repository is open: [err, ret]
GetCommitDetailsResult(w, repo_id, commit_hash) ==
    LET g == w.git[Resolve(GetRepoPath(repo_id))]
        n == CHOOSE k \in 1..Len(g.commits) : HashOf(k) = commit_hash
    IN  IF g.bare THEN [err |-> "GitOperationError", ret |-> NoneVal]
        ELSE IF ~\E k \in 1..Len(g.commits) : HashOf(k) = commit_hash
        THEN [err |-> "GitOperationError", ret |-> NoneVal]
        ELSE [err |-> "none", ret |-> CommitInfo(g, n)]

get_commit_details(repo_id, commit_hash) ==
    LET e == GetRepoErr(World, repo_id)
        r == IF e # "none" THEN [err |-> e, ret |-> NoneVal]
             ELSE GetCommitDetailsResult(World, repo_id, commit_hash)
    IN  /\ last' = Call("get_commit_details", repo_id, commit_hash, "", "", r.err, r.ret)
        /\ UNCHANGED <<fsDirs, fsFiles, git, settings, nextId, environ, frames>>

\* repo.index.diff("HEAD"): paths whose index entry differs from HEAD's tree
StagedFiles(g) ==
    LET h == TreeOf(g, HeadCommit(g))
    IN  { p \in DOMAIN g.index \cup DOMAIN h : At(g.index, p) # At(h, p) }

\* the entries of status["files"]: the untracked files with their size, the
\* modified files and the staged files
StatusFiles(g, wt) ==
    { [path |-> p, status |-> "untracked", size |-> Len(wt[p])] : p \in UntrackedFiles(g, wt) }
    \cup { [path |-> p, status |-> "modified", size |-> 0] : p \in ModifiedFiles(g, wt) }
    \cup { [path |-> p, status |-> "staged", size |-> 0] : p \in StagedFiles(g) }

\* get_status once the repository is open: [err, ret]
GetStatusResult(w, repo_id) ==
    LET path == Resolve(GetRepoPath(repo_id))
        g    == w.git[path]
    IN  IF g.bare
        THEN [err |-> "none",
              ret |-> [is_bare |-> TRUE, is_dirty |-> FALSE, current_branch |-> NoneVal,
                       files |-> {}]]
        ELSE IF HeadCommit(g) = 0 THEN [err |-> "GitOperationError", ret |-> NoneVal]
        ELSE [err |-> "none",
              ret |-> [is_bare |-> FALSE, is_dirty |-> IsDirty(w, path),
                       current_branch |-> g.head,
                       files |-> StatusFiles(g, WorkTree(w, path))]]

\* get_status with its error kinds: [err, ret]
GetStatus(w, repo_id) ==
    IF GetRepoErr(w, repo_id) # "none"
    THEN [err |-> GetRepoErr(w, repo_id), ret |-> NoneVal]
    ELSE GetStatusResult(w, repo_id)

get_status(repo_id) ==
    /\ \E r \in {GetStatus(World, repo_id)} :
          last' = Call("get_status", repo_id, "", "", "", r.err, r.ret)
    /\ UNCHANGED <<fsDirs, fsFiles, git, settings, nextId, environ, frames>>

(***************************************************************************)
(* push and pull.  The two methods have the same shape; op tells which.    *)
(* A frame is the state of one call: where it stands (pc), its arguments,  *)
(* the error it is about to raise and what it has done so far.             *)
(***************************************************************************)
\* the truth value Python gives an optional string argument
Truthy(x) == x \notin {NoneVal, ""}

\* the credential arguments of a call
Cred(username, password, token) ==
    [username |-> username, password |-> password, token |-> token]

NoCred == Cred(NoneVal, NoneVal, NoneVal)

\* os.environ without the two credential variables
EmptyEnviron == [GIT_USERNAME |-> NoneVal, GIT_PASSWORD |-> NoneVal]

\* the values the call puts into the environment: the token under the
\* fixed user name, else the user name and password when both are given,
\* else nothing
Injection(cred) ==
    IF Truthy(cred.token)
    THEN [GIT_USERNAME |-> "x-access-token", GIT_PASSWORD |-> cred.token]
    ELSE IF Truthy(cred.username) /\ Truthy(cred.password)
    THEN [GIT_USERNAME |-> cred.username, GIT_PASSWORD |-> cred.password]
    ELSE EmptyEnviron

IdleFrame ==
    [pc |-> "idle", op |-> "", id |-> "", remote |-> "", cred |-> NoCred,
     err |-> "none", msg |-> "", injected |-> FALSE, contacted |-> FALSE,
     seen |-> EmptyEnviron, overlapped |-> FALSE]

\* settings.GIT_DISABLE_PUSH or settings.GIT_DISABLE_PULL
SyncDisabled(op) ==
    IF op = "push" THEN settings.GIT_DISABLE_PUSH ELSE settings.GIT_DISABLE_PULL

\* a faulty variant of the entry: the repository is looked up before the
\* flag is read
SyncEnterLookupFirst(w, op, repo_id, remote, cred) ==
    LET f == [IdleFrame EXCEPT !.op = op, !.id = repo_id, !.remote = remote, !.cred = cred]
        e == GetRepoErr(w, repo_id)
    IN  IF e # "none" THEN [f EXCEPT !.pc = "raise", !.err = e, !.msg = "lookup"]
        ELSE IF SyncDisabled(op)
        THEN [f EXCEPT !.pc = "raise", !.err = "GitOperationError", !.msg = "disabled"]
        ELSE IF w.git[Resolve(GetRepoPath(repo_id))].bare
        THEN [f EXCEPT !.pc = "raise", !.err = "GitOperationError", !.msg = "bare"]
        ELSE IF remote \notin w.git[Resolve(GetRepoPath(repo_id))].remotes
        THEN [f EXCEPT !.pc = "pop_user", !.err = "GitOperationError", !.msg = "remote"]
        ELSE IF Injection(cred) # EmptyEnviron THEN [f EXCEPT !.pc = "set_user"]
        ELSE [f EXCEPT !.pc = "network"]

\* the statements before the try block and the remote lookup: the frame of
\* the call after them.  pc is "raise" when the call ends before the try
\* block, "pop_user" when the remote is missing (the finally clause runs).
SyncEnter(w, op, repo_id, remote, cred) ==
    LET f == [IdleFrame EXCEPT !.op = op, !.id = repo_id, !.remote = remote, !.cred = cred]
        e == GetRepoErr(w, repo_id)
    IN  IF SyncDisabled(op)
        THEN [f EXCEPT !.pc = "raise", !.err = "GitOperationError", !.msg = "disabled"]
        ELSE IF e # "none" THEN [f EXCEPT !.pc = "raise", !.err = e, !.msg = "lookup"]
        ELSE IF w.git[Resolve(GetRepoPath(repo_id))].bare
        THEN [f EXCEPT !.pc = "raise", !.err = "GitOperationError", !.msg = "bare"]
        ELSE IF remote \notin w.git[Resolve(GetRepoPath(repo_id))].remotes
        THEN [f EXCEPT !.pc = "pop_user", !.err = "GitOperationError", !.msg = "remote"]
        ELSE IF Injection(cred) # EmptyEnviron THEN [f EXCEPT !.pc = "set_user"]
        ELSE [f EXCEPT !.pc = "network"]

\* os.environ['GIT_USERNAME'] = ...
SetUser(f, env) ==
    [f   |-> [f EXCEPT !.pc = "set_pass", !.injected = TRUE],
     env |-> [env EXCEPT !.GIT_USERNAME = Injection(f.cred).GIT_USERNAME]]

\* a faulty variant of the injection: the password is not set
SetPassNothing(f, env) == [f |-> [f EXCEPT !.pc = "network"], env |-> env]

\* os.environ['GIT_PASSWORD'] = ...
SetPass(f, env) ==
    [f   |-> [f EXCEPT !.pc = "network"],
     env |-> [env EXCEPT !.GIT_PASSWORD = Injection(f.cred).GIT_PASSWORD]]

\* remote_obj.push(...) or remote_obj.pull(...): the git process inherits
\* the environment as it is now; outcome is what the engine reports
Network(f, env, outcome) ==
    [f   |-> [f EXCEPT !.pc = "pop_user", !.contacted = TRUE, !.seen = env,
                       !.err = IF outcome = "ok" THEN "none" ELSE "GitOperationError",
                       !.msg = IF outcome = "ok" THEN "" ELSE "engine"],
     env |-> env]

\* a faulty variant of the first cleanup statement: the variable is kept
\* when the call is about to raise
PopUserOnSuccess(f, env) ==
    [f   |-> [f EXCEPT !.pc = "pop_pass"],
     env |-> IF f.err = "none" THEN [env EXCEPT !.GIT_USERNAME = NoneVal] ELSE env]

\* finally: os.environ.pop('GIT_USERNAME', None)
PopUser(f, env) ==
    [f   |-> [f EXCEPT !.pc = "pop_pass"],
     env |-> [env EXCEPT !.GIT_USERNAME = NoneVal]]

\* finally: os.environ.pop('GIT_PASSWORD', None), and the call ends
PopPass(f, env) ==
    [f   |-> [f EXCEPT !.pc = "raise"],
     env |-> [env EXCEPT !.GIT_PASSWORD = NoneVal]]

\* what the engine reports of a push or pull
Outcomes == {"ok", "GitCommandError"}

\* one statement of a call in progress
SyncStep(f, env, outcome) ==
    CASE f.pc = "set_user" -> SetUser(f, env)
      [] f.pc = "set_pass" -> SetPass(f, env)
      [] f.pc = "network"  -> Network(f, env, outcome)
      [] f.pc = "pop_user" -> PopUser(f, env)
      [] f.pc = "pop_pass" -> PopPass(f, env)
      [] OTHER             -> [f |-> f, env |-> env]

\* a call run from its frame f to its end with no other thread in between
RECURSIVE SyncRun(_, _, _)
SyncRun(f, env, outcome) ==
    IF f.pc = "raise" THEN [f |-> f, env |-> env]
    ELSE SyncRun(SyncStep(f, env, outcome).f, SyncStep(f, env, outcome).env, outcome)

\* what a finished call leaves in last
SyncCall(f) ==
    Call(f.op, f.id, f.remote, f.cred, f.seen, f.err,
         [msg |-> f.msg, injected |-> f.injected, contacted |-> f.contacted,
          overlapped |-> f.overlapped])

\* push or pull as one call of a single-threaded caller
sync(op, repo_id, remote, cred, outcome) ==
    /\ \A t \in DOMAIN frames : frames[t].pc = "idle"
    /\ \E r \in {SyncRun(SyncEnter(World, op, repo_id, remote, cred), environ, outcome)} :
          /\ environ' = r.env
          /\ last' = SyncCall(r.f)
    /\ UNCHANGED <<fsDirs, fsFiles, git, settings, nextId, frames>>

push(repo_id, remote, cred, outcome) == sync("push", repo_id, remote, cred, outcome)

pull(repo_id, remote, cred, outcome) == sync("pull", repo_id, remote, cred, outcome)

\* the frames after thread t moved to frame f: a call that starts or runs
\* while another call is in progress overlaps it, and so does the other
Overlap(t, f) ==
    LET busy == \E u \in DOMAIN frames \ {t} : frames[u].pc # "idle"
    IN  [u \in DOMAIN frames |->
            IF u = t THEN [f EXCEPT !.overlapped = f.overlapped \/ busy]
            ELSE IF frames[u].pc # "idle" THEN [frames[u] EXCEPT !.overlapped = TRUE]
            ELSE frames[u]]

\* thread t leaves its call: the outcome is recorded, the frame is free
SyncReturn(t, f) ==
    /\ last' = SyncCall([f EXCEPT !.overlapped = Overlap(t, f)[t].overlapped])
    /\ frames' = [frames EXCEPT ![t] = IdleFrame]

\* thread t calls push or pull and runs it up to the try block
sync_call(t, op, repo_id, remote, cred) ==
    /\ frames[t].pc = "idle"
    /\ \E f \in {SyncEnter(World, op, repo_id, remote, cred)} :
          IF f.pc = "raise"
          THEN SyncReturn(t, f)
          ELSE /\ frames' = Overlap(t, f)
               /\ UNCHANGED last
    /\ UNCHANGED <<fsDirs, fsFiles, git, settings, nextId, environ>>

\* thread t runs the next statement of its call that touches os.environ
sync_environ(t) ==
    /\ frames[t].pc \in {"set_user", "set_pass", "pop_user", "pop_pass"}
    /\ \E r \in {SyncStep(frames[t], environ, "ok")} :
          /\ environ' = r.env
          /\ IF r.f.pc = "raise"
             THEN SyncReturn(t, r.f)
             ELSE /\ frames' = Overlap(t, r.f)
                  /\ UNCHANGED last
    /\ UNCHANGED <<fsDirs, fsFiles, git, settings, nextId>>

\* thread t runs the push or pull of the engine
sync_network(t, outcome) ==
    /\ frames[t].pc = "network"
    /\ frames' = Overlap(t, Network(frames[t], environ, outcome).f)
    /\ UNCHANGED <<fsDirs, fsFiles, git, settings, nextId, environ, last>>

(***************************************************************************)
(* Inputs.                                                                 *)
(***************************************************************************)
Names == {"a_b-1", "--", "", "my repo"}

Urls ==
    {"", "https://h/ok.git", "https://h/big.git", "https://h/edge.git", "file:///srv/x",
     "https://h/../x"}

\* the calls of create_repository the model makes: every name; every URL;
\* bare and not; and a fault at each step the call goes through
CreateInputs ==
    (Names \X {""} \X {FALSE} \X {"none"})
    \cup ({"a_b-1"} \X Urls \X {FALSE} \X {"none"})
    \cup ({"a_b-1"} \X {"", "https://h/big.git"} \X {TRUE} \X {"none"})
    \cup ({"a_b-1"} \X {""} \X BOOLEAN \X {"init", "sidecar", "info"})
    \cup ({"a_b-1"} \X {""} \X {FALSE} \X {"commit"})
    \cup ({"a_b-1"} \X {"https://h/ok.git"} \X {FALSE} \X {"clone", "clone_partial", "sidecar", "info"})

RepoIdInputs == AllocatedIds \cup StrangeIds

\* file paths a caller may pass, relative to the repository
FilePaths ==
    {"n.txt", "../../../etc/passwd", "../../repos2/n.txt"}
    \cup { "../" \o id \o "/n.txt" : id \in AllocatedIds }

Contents == {"a\r\nb"}

\* the file calls the model makes: every path and content on the
\* identifiers handed out, one call on each of the others
FileInputs ==
    (AllocatedIds \X FilePaths \X Contents)
    \cup (StrangeIds \X {"n.txt"} \X Contents)

\* the configuration the service runs under (sizes in bytes)
InitSettings ==
    [GIT_MAX_REPO_SIZE |-> 120,
     GIT_MAX_FILE_SIZE |-> 8,
     GIT_ALLOWED_SCHEMES |-> {"http://", "https://", "ssh://", "git://", "git@"},
     GIT_DISABLE_PUSH |-> FALSE,
     GIT_DISABLE_PULL |-> FALSE]

Init ==
    /\ settings = InitSettings
    /\ fsDirs = Ancestors(BasePath)
    /\ fsFiles = EmptyMap
    /\ git = EmptyMap
    /\ nextId = 0
    /\ environ = EmptyEnviron
    /\ frames = [t \in Threads |-> IdleFrame]
    /\ last = Call("init", "", "", "", "", "none", NoneVal)

Next ==
    \/ \E c \in CreateInputs : create_repository(c[1], c[2], c[3], c[4])
    \/ \E repo_id \in RepoIdInputs : get_repository_info(repo_id)
    \/ \E repo_id \in RepoIdInputs : delete_repository(repo_id)
    \/ \E f \in FileInputs : write_file(f[1], f[2], f[3])
    \/ \E f \in FileInputs : read_file(f[1], f[2], "")
    \/ list_repositories

Spec == Init /\ [][Next]_vars

(***************************************************************************)
(* The history specification: one repository, created by                   *)
(* create_repository("demo"), bare or not, under the file, commit and      *)
(* branch calls.                                                           *)
(***************************************************************************)
GitPaths == {"n.txt"}

GitContents == {"hello", "a\r\nb"}

Messages == {"add notes", " pad\n"}

CommitFiles == {NoFiles, FileList(<<"n.txt">>), FileList(<<"README.md">>),
                FileList(<<"../../../etc/passwd">>)}

BranchNames == {"main", "dev"}

InitGit ==
    /\ settings = InitSettings
    /\ nextId = 1
    /\ environ = EmptyEnviron
    /\ frames = [t \in Threads |-> IdleFrame]
    /\ \E init_bare \in BOOLEAN :
       \E w \in {CreateTry([dirs |-> Ancestors(BasePath), files |-> EmptyMap, git |-> EmptyMap],
                           IdOf(1), "demo", "", init_bare, "none").w} :
          /\ last = Call("create", "demo", "", init_bare, "none", "none", IdOf(1))
          /\ fsDirs = w.dirs
          /\ fsFiles = w.files
          /\ git = w.git

NextGit ==
    \/ \E p \in GitPaths, c \in GitContents : write_file(IdOf(1), p, c)
    \/ \E p \in GitPaths : read_file(IdOf(1), p, "")
    \/ \E p \in GitPaths, h \in {HashOf(1), HashOf(2)} : read_file(IdOf(1), p, h)
    \/ \E m \in Messages, f \in CommitFiles :
          create_commit(IdOf(1), m, f, NoneVal, NoneVal)
    \/ \E b \in BranchNames \cup {NoneVal} : get_commits(IdOf(1), b, DefaultLimit, 0)
    \/ \E b \in BranchNames, base \in {NoneVal, "main"} : create_branch(IdOf(1), b, base)
    \/ \E b \in BranchNames \cup {"nope"} : switch_branch(IdOf(1), b)
    \/ get_repository_info(IdOf(1))
    \/ \E h \in {HashOf(1), HashOf(9)} : get_commit_details(IdOf(1), h)
    \/ \E outcome \in Outcomes : push(IdOf(1), "origin", Cred(NoneVal, NoneVal, "tok1"), outcome)
    \/ \E outcome \in Outcomes : pull(IdOf(1), "origin", Cred("usr2", "pw2", NoneVal), outcome)

SpecGit == InitGit /\ [][NextGit]_vars

(***************************************************************************)
(* The synchronisation specification: two cloned repositories, and         *)
(* threads that call push and pull on them at the same time.  The flags    *)
(* that disable push and pull are set or not when the service starts.      *)
(***************************************************************************)
\* the credentials thread t passes: a token for the odd threads, a user
\* name and password for the even ones
CredOf(t) ==
    IF t % 2 = 1 THEN Cred(NoneVal, NoneVal, "tok" \o Digits[t])
    ELSE Cred("usr" \o Digits[t], "pw" \o Digits[t], NoneVal)

\* the repository thread t works on
RepoOf(t) == IdOf(((t - 1) % 2) + 1)

\* the method thread t calls
OpOf(t) == IF t % 2 = 1 THEN "push" ELSE "pull"

\* the push and pull calls thread t makes: on its repository with its
\* credentials or with none, on a remote that is not configured, and on an
\* identifier never handed out
SyncInputs(t) ==
    ({RepoOf(t)} \X {"origin"} \X {CredOf(t), NoCred})
    \cup ({RepoOf(t)} \X {"nope"} \X {CredOf(t)})
    \cup ({"ghost"} \X {"origin"} \X {CredOf(t)})

InitSync ==
    /\ \E dpush \in BOOLEAN, dpull \in BOOLEAN :
          settings = [InitSettings EXCEPT !.GIT_DISABLE_PUSH = dpush,
                                          !.GIT_DISABLE_PULL = dpull]
    /\ nextId = 2
    /\ environ = EmptyEnviron
    /\ frames = [t \in Threads |-> IdleFrame]
    /\ \E w1 \in {CreateTry([dirs |-> Ancestors(BasePath), files |-> EmptyMap, git |-> EmptyMap],
                            IdOf(1), "one", "https://h/ok.git", FALSE, "none").w} :
       \E w2 \in {CreateTry(w1, IdOf(2), "two", "https://h/ok.git", FALSE, "none").w} :
          /\ last = Call("create", "two", "https://h/ok.git", FALSE, "none", "none", IdOf(2))
          /\ fsDirs = w2.dirs
          /\ fsFiles = w2.files
          /\ git = w2.git

NextSync ==
    \/ \E t \in Threads :
          \E c \in SyncInputs(t) : sync_call(t, OpOf(t), c[1], c[2], c[3])
    \/ \E t \in Threads : sync_environ(t)
    \/ \E t \in Threads, outcome \in Outcomes : sync_network(t, outcome)

SpecSync == InitSync /\ [][NextSync]_vars

(***************************************************************************)
(* The working-tree specification: one non-bare repository, created by     *)
(* create_repository("demo"), under write_file with contents below, at     *)
(* and above the file-size limit and over the sidecar, read_file,          *)
(* create_commit, the status calls and list_repositories.                  *)
(***************************************************************************)
\* contents a caller writes: short; as long as the file-size limit allows;
\* longer than that, with a carriage return; much longer
FileContents ==
    {"hello", "01234567", "0123456\r\n", "012345678901234567890123456789"}

\* the author arguments of create_commit: none, both, the name alone, the
\* email alone
Authors ==
    {<<NoneVal, NoneVal>>, <<"ann", "ann@h">>, <<"ann", NoneVal>>, <<NoneVal, "ann@h">>}

\* what a caller writes over the sidecar: text that is no JSON, and a
\* well-formed sidecar with another name and a URL
SidecarContents == {"{oops", MetaJson("zed", "https://h/z.git")}

InitFile ==
    /\ settings = InitSettings
    /\ nextId = 1
    /\ environ = EmptyEnviron
    /\ frames = [t \in Threads |-> IdleFrame]
    /\ \E w \in {CreateTry([dirs |-> Ancestors(BasePath), files |-> EmptyMap, git |-> EmptyMap],
                           IdOf(1), "demo", "", FALSE, "none").w} :
          /\ last = Call("create", "demo", "", FALSE, "none", "none", IdOf(1))
          /\ fsDirs = w.dirs
          /\ fsFiles = w.files
          /\ git = w.git

NextFile ==
    \/ \E p \in GitPaths, c \in FileContents : write_file(IdOf(1), p, c)
    \/ \E c \in SidecarContents : write_file(IdOf(1), MetadataName, c)
    \/ \E p \in GitPaths : read_file(IdOf(1), p, "")
    \/ \E f \in {NoFiles, FileList(<<"n.txt">>)} :
          create_commit(IdOf(1), "add notes", f, NoneVal, NoneVal)
    \/ \E repo_id \in {IdOf(1), "ghost"} : get_status(repo_id)
    \/ \E repo_id \in {IdOf(1), "ghost"} : get_repository_info(repo_id)
    \/ list_repositories

SpecFile == InitFile /\ [][NextFile]_vars

(***************************************************************************)
(* The log specification: the repository of the working-tree               *)
(* specification under                                                     *)
(* create_commit with and without authors and file lists, get_commits      *)
(* with limit and skip, and create_branch with and without a base.         *)
(***************************************************************************)
NextLog ==
    \/ write_file(IdOf(1), "n.txt", "hello")
    \/ \E a \in Authors : create_commit(IdOf(1), "add notes", NoFiles, a[1], a[2])
    \/ \E f \in {FileList(<<"n.txt">>), FileList(<<>>)} :
          create_commit(IdOf(1), "add notes", f, NoneVal, NoneVal)
    \/ \E b \in {NoneVal, "main", "nope"}, limit \in {0, 1, DefaultLimit}, skip \in {0, 1, 2} :
          get_commits(IdOf(1), b, limit, skip)
    \/ \E base \in {NoneVal, "main", "nope"} : create_branch(IdOf(1), "dev", base)

SpecLog == InitFile /\ [][NextLog]_vars

(***************************************************************************)
(* The commit specification: one repository with the branches main and    *)
(* dev, and two threads that run create_commit statement by statement,     *)
(* each with an author of its own, next to switch_branch and write_file.   *)
(***************************************************************************)
\* the author thread t commits as
AuthorOf(t) == [name |-> "usr" \o Digits[t], email |-> "usr" \o Digits[t] \o "@h"]

InitRace ==
    /\ settings = InitSettings
    /\ nextId = 1
    /\ environ = EmptyEnviron
    /\ frames = [t \in Threads |-> IdleCommit]
    /\ \E w \in {CreateTry([dirs |-> Ancestors(BasePath), files |-> EmptyMap, git |-> EmptyMap],
                           IdOf(1), "demo", "", FALSE, "none").w} :
          /\ last = Call("create_branch", IdOf(1), "dev", NoneVal, "", "none", "dev")
          /\ fsDirs = w.dirs
          /\ fsFiles = w.files
          /\ git = [w.git EXCEPT ![Resolve(GetRepoPath(IdOf(1)))].branches =
                       MapPut(@, "dev", HeadCommit(w.git[Resolve(GetRepoPath(IdOf(1)))]))]

NextRace ==
    \/ \E t \in Threads, repo_id \in {IdOf(1), "ghost"}, f \in {NoFiles, FileList(<<"n.txt">>)} :
          create_commit_stage(t, repo_id, "add notes", f, AuthorOf(t).name, AuthorOf(t).email)
    \/ \E t \in Threads : create_commit_config(t)
    \/ \E t \in Threads : create_commit_commit(t)
    \/ \E t \in Threads, b \in BranchNames :
          frames[t].pc = "idle" /\ switch_branch(IdOf(1), b)
    \/ \E t \in Threads :
          frames[t].pc = "idle" /\ write_file(IdOf(1), "n.txt", "hello")

SpecRace == InitRace /\ [][NextRace]_vars

(***************************************************************************)
(* Properties.  The call under test is the one recorded in last; in an     *)
(* action formula the unprimed state is the one the call started from.     *)
(***************************************************************************)
WorkDirOf(repo_id) == Resolve(GetRepoPath(repo_id))

\* strictly below the store root
InsideRoot(p) == IsUnder(p, BasePath) /\ p # Resolve(BasePath)

\* the store root and the directories that lead to it
RootChain == Ancestors(BasePath)

\* the directories strictly below the store root
DirsUnderRoot(w) == { d \in w.dirs : InsideRoot(d) }

\* the call recorded in last' is a file call on a repository that opens
FileCallOnOpenRepo(op) ==
    /\ last'.op = op
    /\ GetRepoErr(World, last'.id) = "none"
    /\ ~git[WorkDirOf(last'.id)].bare

\* C1: a write_file whose path resolves outside the store root fails with
\* SecurityError and leaves the file system exactly as it was
C1_EscapingWriteIsSecurityError ==
    [][ (/\ FileCallOnOpenRepo("write_file")
         /\ ~IsUnder(Resolve(PathJoin(WorkDirOf(last'.id), last'.arg)), BasePath))
        => (/\ last'.err = "SecurityError"
            /\ UNCHANGED <<fsDirs, fsFiles, git>>) ]_vars

\* the repositories other than the one the call names
OtherRepos(repo_id) == DOMAIN git \ {WorkDirOf(repo_id)}

\* C2: a write_file on repository A changes no file under the directory of
\* another repository B, and a read_file on A that returns content read it
\* from under A's own directory
C2_FilePathConfinedToItsRepository ==
    [][ /\ FileCallOnOpenRepo("write_file")
           => \A b \in OtherRepos(last'.id) :
                 /\ b \in DOMAIN git'
                 /\ WorkTree(World, b)' = WorkTree(World, b)
        /\ (FileCallOnOpenRepo("read_file") /\ last'.err = "none")
           => IsUnder(Resolve(PathJoin(WorkDirOf(last'.id), last'.arg)),
                      WorkDirOf(last'.id)) ]_vars

\* the calls that take a repository identifier
IdOps == {"get", "delete", "write_file", "read_file", "create_commit",
          "get_commits", "create_branch", "switch_branch"}

\* C3: a call on an identifier either fails with SecurityError or works on
\* a strict descendant of the store root, and nothing on disk lies outside
\* the store root
C3_IdentifierStaysInsideRoot ==
    /\ last.op \in IdOps
       => (last.err = "SecurityError" \/ InsideRoot(WorkDirOf(last.id)))
    /\ \A p \in fsDirs \cup DOMAIN fsFiles : p \in RootChain \/ InsideRoot(p)

\* C4: create_repository with a valid name and a file:// URL, or a URL that
\* contains "..", fails with SecurityError and leaves no directory behind
C4_ForbiddenUrlIsSecurityError ==
    (/\ last.op = "create"
     /\ ValidName(last.id)
     /\ (StartsWith(last.arg, "file://") \/ Contains(last.arg, "..")))
    => (/\ last.err = "SecurityError"
        /\ \A n \in (nextId + 1)..MaxRepos : ~Exists(World, WorkDirOf(IdOf(n))))

\* C5: a create_repository that fails leaves the set of directories below
\* the store root as it was before the call, at whichever step it failed
C5_FailedCreateLeavesNoDirectory ==
    [][ (last'.op = "create" /\ last'.err # "none")
        => DirsUnderRoot(World)' = DirsUnderRoot(World) ]_vars

\* a create that failed on the size quota, after the clone had filled the
\* directory
C5_FailedAfterCloneWitness ==
    /\ last.op = "create"
    /\ last.err = "GitOperationError"
    /\ ValidName(last.id)
    /\ last.arg = "https://h/big.git"
    /\ last.opt = "none"
    /\ ~Exists(World, WorkDirOf(IdOf(nextId + 1)))

\* the names the interface documents: non-empty, of letters, digits,
\* hyphens and underscores
AllowedName(name) ==
    /\ name # ""
    /\ CharsOf(name) \subseteq (AlnumChars \cup {"-", "_"})

\* C6: create_repository accepts exactly the allowed names: with such a
\* name (no URL, no engine failure) it returns an identifier whose record
\* carries the name and whose directory exists, with any other name it
\* fails
C6_CreateAcceptsExactlyAllowedNames ==
    (last.op = "create" /\ last.arg = "" /\ last.opt = "none")
    => IF AllowedName(last.id)
       THEN /\ last.err = "none"
            /\ Exists(World, WorkDirOf(last.ret))
            /\ GetInfoErr(World, last.ret) = "none"
            /\ InfoRecord(World, last.ret).name = last.id
       ELSE /\ last.err # "none"
            /\ ~Exists(World, WorkDirOf(IdOf(nextId + 1)))

\* C7: an identifier that was handed out and answers NotFound keeps
\* answering NotFound whatever is called next, and right after a successful
\* delete the identifier answers NotFound
C7_DeletedStaysNotFound ==
    [][ /\ \A id \in AllocatedIds :
              GetInfoErr(World, id) = "RepositoryNotFoundError"
              => GetInfoErr(World, id)' = "RepositoryNotFoundError"
        /\ (last'.op = "delete" /\ last'.err = "none")
              => GetInfoErr(World', last'.id) = "RepositoryNotFoundError" ]_vars

\* C8: read_file without a commit hash, called right after a successful
\* write_file of content c to the same path of the same repository,
\* returns exactly c
C8_WriteThenReadRoundTrip ==
    [][ (/\ last.op = "write_file"
         /\ last.err = "none"
         /\ last'.op = "read_file"
         /\ last'.id = last.id
         /\ last'.arg = last.arg
         /\ last'.data = "")
        => (last'.err = "none" /\ last'.ret = last.data) ]_vars

\* list_commits(id) with its defaults, in world w
CommitList(w, repo_id) == GetCommits(w, repo_id, NoneVal, DefaultLimit, 0).ret

\* the call recorded in last' is a successful create_commit(id, m, files=[p])
CommittedOneFile ==
    /\ last'.op = "create_commit"
    /\ last'.err = "none"
    /\ last'.arg.given
    /\ Len(last'.arg.list) = 1

\* the content of path p in the working tree differs from HEAD's tree
DiffersFromHead(w, repo_id, p) ==
    LET wd == WorkDirOf(repo_id)
        g  == w.git[wd]
    IN  At(WorkTree(w, wd), p) # At(TreeOf(g, HeadCommit(g)), p)

\* C9 as stated: a successful create_commit(id, m, files=[p]) adds one entry
\* to list_commits(id), the new one first, with message m, the returned
\* hash, and p among its changed files
C9_CommitListsMessageAndFile ==
    [][ CommittedOneFile
        => LET before == CommitList(World, last'.id)
               after  == CommitList(World', last'.id)
           IN  /\ Len(after) = Len(before) + 1
               /\ after[1].hash = last'.ret
               /\ after[1].message = last'.data
               /\ last'.arg.list[1] \in after[1].files ]_vars

\* C9 amended: a successful create_commit(id, m, files=[p]) puts one new
\* entry in front of list_commits(id), with the returned hash and the
\* message m stripped of surrounding whitespace; p is among its changed
\* files exactly when p's content differed from HEAD's; the oldest entry
\* of a created repository is "Initial commit" with README.md
C9_CommitListsStrippedMessageAndChangedFile ==
    [][ CommittedOneFile
        => LET before == CommitList(World, last'.id)
               after  == CommitList(World', last'.id)
               p      == last'.arg.list[1]
           IN  /\ Len(after) = Len(before) + 1
               /\ SubSeq(after, 2, Len(after)) = before
               /\ after[1].hash = last'.ret
               /\ after[1].message = Strip(last'.data)
               /\ p \in after[1].files <=> DiffersFromHead(World, last'.id, p)
               /\ after[Len(after)].message = "Initial commit"
               /\ after[Len(after)].files = {"README.md"} ]_vars

\* the first commit after creation, of a new file, listed as two commits
C9_SecondCommitWitness ==
    /\ last.op = "create_commit"
    /\ last.err = "none"
    /\ last.arg = FileList(<<"n.txt">>)
    /\ last.data = "add notes"
    /\ Len(CommitList(World, last.id)) = 2
    /\ CommitList(World, last.id)[1].files = {"n.txt"}
    /\ CommitList(World, last.id)[1].hash = last.ret

\* the call recorded in last' is a switch_branch on a repository that opens
SwitchCall ==
    /\ last'.op = "switch_branch"
    /\ GetRepoErr(World, last'.id) = "none"

\* name is a local branch of the non-bare repository
IsLocalBranch(w, repo_id, name) ==
    /\ ~w.git[WorkDirOf(repo_id)].bare
    /\ name \in DOMAIN w.git[WorkDirOf(repo_id)].branches

\* nothing is staged or edited, and no untracked file lies on a path the
\* branch carries
NothingInTheWay(w, repo_id, name) ==
    LET wd == WorkDirOf(repo_id)
        g  == w.git[wd]
    IN  /\ ~IsDirty(w, wd)
        /\ UntrackedFiles(g, WorkTree(w, wd))
              \cap DOMAIN TreeOf(g, g.branches[name]) = {}

\* the current branch get_repository_info reports
CurrentBranch(w, repo_id) == InfoRecord(w, repo_id).current_branch

\* C10 as stated: switch_branch succeeds exactly when the name is a local
\* branch of a non-bare repository, and then the current branch is that
\* name; otherwise it fails with GitOperationError and changes nothing
C10_SwitchSucceedsExactlyOnLocalBranch ==
    [][ SwitchCall
        => /\ last'.err = "none" <=> IsLocalBranch(World, last'.id, last'.arg)
           /\ last'.err = "none" => CurrentBranch(World', last'.id) = last'.arg
           /\ ~IsLocalBranch(World, last'.id, last'.arg)
                 => /\ last'.err = "GitOperationError"
                    /\ UNCHANGED <<fsDirs, fsFiles, git>> ]_vars

\* C10 amended: switch_branch succeeds only on a local branch of a non-bare
\* repository, and does succeed on one when no uncommitted change is in the
\* way; after a success the current branch is that name, and no call other
\* than a successful switch_branch changes it; a switch_branch that fails,
\* on an unknown name or on a refused checkout, fails with
\* GitOperationError and leaves branch and working tree unchanged
C10_SwitchSucceedsOnlyOnLocalBranch ==
    [][ /\ SwitchCall
           => /\ last'.err = "none" => IsLocalBranch(World, last'.id, last'.arg)
              /\ (/\ IsLocalBranch(World, last'.id, last'.arg)
                  /\ NothingInTheWay(World, last'.id, last'.arg))
                    => last'.err = "none"
              /\ last'.err = "none" => CurrentBranch(World', last'.id) = last'.arg
              /\ last'.err # "none"
                    => /\ last'.err = "GitOperationError"
                       /\ UNCHANGED <<fsDirs, fsFiles, git>>
        /\ ~(last'.op = "switch_branch" /\ last'.err = "none")
           => \A id \in AllocatedIds :
                 (GetRepoErr(World, id) = "none" /\ GetRepoErr(World', id) = "none")
                 => CurrentBranch(World', id) = CurrentBranch(World, id) ]_vars

\* a switch to the other branch that went through
C10_SwitchedWitness ==
    /\ last.op = "switch_branch"
    /\ last.err = "none"
    /\ last.arg = "dev"
    /\ GetInfoErr(World, last.id) = "none"
    /\ CurrentBranch(World, last.id) = "dev"
    /\ Len(git[WorkDirOf(last.id)].commits) = 2

(***************************************************************************)
(* C11: branch isolation.                                                  *)
(***************************************************************************)
\* the tree of the commit branch name points at
BranchTree(w, repo_id, name) ==
    LET g == w.git[WorkDirOf(repo_id)] IN TreeOf(g, g.branches[name])

\* the tree of the commit that is checked out
HeadTree(w, repo_id) ==
    LET g == w.git[WorkDirOf(repo_id)] IN TreeOf(g, HeadCommit(g))

\* C11: when switch_branch succeeds, a file committed on the branch that is
\* left and absent from the branch that is entered cannot be read from the
\* working tree any more, and a file that was absent from the working tree
\* and is committed on the branch that is entered reads back as the
\* committed content.
C11_BranchIsolation ==
    [][(SwitchCall /\ last'.err = "none") =>
        \A p \in GitPaths :
           /\ (p \in DOMAIN HeadTree(World, last'.id)
               /\ p \notin DOMAIN BranchTree(World, last'.id, last'.arg))
              => ReadFileResult(World', last'.id, p, "").err = "GitOperationError"
           /\ (p \notin DOMAIN WorkTree(World, WorkDirOf(last'.id))
               /\ p \in DOMAIN BranchTree(World, last'.id, last'.arg))
              => ReadFileResult(World', last'.id, p, "")
                 = [err |-> "none", ret |-> BranchTree(World, last'.id, last'.arg)[p]]
      ]_vars

(***************************************************************************)
(* C12 to C14: push and pull.                                              *)
(***************************************************************************)
\* the call recorded in last is a push or a pull
SyncOps == {"push", "pull"}

\* C12: while push (pull) is disabled, every finished push (pull) has
\* failed with the 'disabled' GitOperationError, whatever the identifier,
\* without setting a credential variable and without contacting a remote;
\* no push (pull) call is past its first statement; and with both disabled
\* the credential variables are never set.
C12_DisabledFailsBeforeLookup ==
    /\ (last.op \in SyncOps /\ SyncDisabled(last.op))
       => /\ last.err = "GitOperationError"
          /\ last.ret.msg = "disabled"
          /\ ~last.ret.injected
          /\ ~last.ret.contacted
    /\ \A t \in Threads : frames[t].pc # "idle" => ~SyncDisabled(frames[t].op)
    /\ (SyncDisabled("push") /\ SyncDisabled("pull")) => environ = EmptyEnviron

\* a push on an identifier never handed out has failed as disabled
C12_DisabledOnUnknownIdWitness ==
    /\ last.op = "push"
    /\ last.id = "ghost"
    /\ SyncDisabled("push")
    /\ last.err = "GitOperationError"
    /\ last.ret.msg = "disabled"

\* no thread is inside push or pull
NoSyncInProgress == \A t \in Threads : frames[t].pc = "idle"

\* C13: whenever no push or pull call is in progress, GIT_USERNAME and
\* GIT_PASSWORD are absent from the process environment: every call that
\* entered its try block has removed them before it returned, whatever its
\* outcome.
C13_CredentialsClearedWhenIdle ==
    NoSyncInProgress => environ = EmptyEnviron

\* a push that ran alone, injected its credentials and failed in the engine
\* has returned
C13_FailedPushReturnedWitness ==
    /\ NoSyncInProgress
    /\ last.op = "push"
    /\ last.ret.injected
    /\ last.ret.contacted
    /\ ~last.ret.overlapped
    /\ last.err = "GitOperationError"
    /\ last.ret.msg = "engine"
    /\ last.opt = Injection(last.data)

\* the credential variables call frame f found at its network operation
\* are not the ones it injected
SawForeignCredentials(f) == f.contacted /\ f.seen # Injection(f.cred)

\* C14: the credential variables are shared by all calls of the process.  A
\* push or pull whose network operation finds other values than the ones it
\* injected has been overlapped by another push or pull call; a call that
\* runs alone always finds its own.  (That such an overlap does reach a
\* network operation with another call's credentials, or with none, is the
\* state C14_ForeignAndMissingCredentialsWitness.)
C14_OnlyOverlapBreaksInjection ==
    /\ \A t \in Threads : SawForeignCredentials(frames[t]) => frames[t].overlapped
    /\ (last.op \in SyncOps /\ last.ret.contacted /\ last.opt # Injection(last.data))
       => last.ret.overlapped

\* two calls on two repositories with different credentials: the push of
\* thread 1 has run its network operation under the credentials of thread
\* 2 and has returned, and the pull of thread 2 has then run its network
\* operation with the variables already removed by the cleanup of thread 1
C14_ForeignAndMissingCredentialsWitness ==
    /\ last.op = "push"
    /\ last.id = RepoOf(1)
    /\ last.data = CredOf(1)
    /\ last.ret.contacted
    /\ last.opt = Injection(CredOf(2))
    /\ frames[2].op = "pull"
    /\ frames[2].id = RepoOf(2)
    /\ frames[2].cred = CredOf(2)
    /\ frames[2].contacted
    /\ frames[2].seen = EmptyEnviron
    /\ RepoOf(1) # RepoOf(2)
    /\ Injection(CredOf(1)) # Injection(CredOf(2))

(***************************************************************************)
(* C15: the file-size limit of write_file.                                 *)
(***************************************************************************)
\* content c is longer than the configured maximum file size
OverFileLimit(c) == Len(c) > settings.GIT_MAX_FILE_SIZE

\* C15: a write_file into a non-bare repository with a path that stays
\* inside it succeeds when the content is within the file-size limit; when
\* the content exceeds the limit it fails with the size error
\* (GitOperationError, the class _check_file_size raises), the file is left
\* on disk with the full content, and a read_file of the path returns that
\* content.
C15_OversizedWriteFailsAndStays ==
    [][ (/\ FileCallOnOpenRepo("write_file")
         /\ last'.arg \in GitPaths)
        => IF OverFileLimit(last'.data)
           THEN /\ last'.err = "GitOperationError"
                /\ At(WorkTree(World', WorkDirOf(last'.id)), last'.arg) = last'.data
                /\ ReadFileResult(World', last'.id, last'.arg, "")
                   = [err |-> "none", ret |-> last'.data]
           ELSE last'.err = "none" ]_vars

(***************************************************************************)
(* C16: the repository-size limit of create.                               *)
(***************************************************************************)
\* the directory the create call recorded in last' works in
CreatedPath == Resolve(GetRepoPath(IdOf(nextId + 1)))

\* the world right after the clone or initialisation of the create call
\* recorded in last', before the size check
AfterCreation ==
    CreateRepo(World, CreatedPath, last'.id, last'.arg, last'.data, last'.opt)

\* the create call recorded in last' has a valid name, and its clone or
\* initialisation goes through with no fault in any step
CreateCallMade ==
    /\ last'.op = "create"
    /\ ValidName(last'.id)
    /\ nextId < MaxRepos
    /\ last'.opt = "none"
    /\ AfterCreation.exc = "none"

\* C16: a create of a non-bare repository fails and leaves no directory
\* when the size of the repository after the clone or initialisation is
\* strictly greater than the maximum, and succeeds when the size is equal
\* to or below the maximum; a create of a bare repository succeeds whatever
\* the size.
C16_CreateFailsExactlyAboveSizeLimit ==
    [][ CreateCallMade
        => IF last'.data THEN last'.err = "none"
           ELSE IF RepoSizeBytes(AfterCreation.w, CreatedPath) > settings.GIT_MAX_REPO_SIZE
           THEN last'.err # "none" /\ ~Exists(World', CreatedPath)
           ELSE last'.err = "none" ]_vars

(***************************************************************************)
(* C17: the failures of get.                                               *)
(***************************************************************************)
\* the directory of repo_id exists and holds a repository
IsRepository(w, repo_id) ==
    /\ Exists(w, WorkDirOf(repo_id))
    /\ WorkDirOf(repo_id) \in DOMAIN w.git

\* C17: a get on an identifier that stays inside the store root fails with
\* RepositoryNotFoundError exactly when the directory does not exist, with
\* InvalidRepositoryError exactly when the directory exists and holds no
\* repository, and returns a record in every other state.
C17_GetFailsOnlyOnMissingOrInvalid ==
    [][ (last'.op = "get" /\ ValidatePathSecurity(GetRepoPath(last'.id)))
        => /\ last'.err = "RepositoryNotFoundError" <=> ~Exists(World, WorkDirOf(last'.id))
           /\ last'.err = "InvalidRepositoryError"
                 <=> (Exists(World, WorkDirOf(last'.id)) /\ ~IsRepository(World, last'.id))
           /\ IsRepository(World, last'.id) => last'.err = "none" ]_vars

(***************************************************************************)
(* C18: list.                                                              *)
(***************************************************************************)
\* the identifiers handed out by create whose repository has not been
\* deleted
LiveIds(w) == { id \in AllocatedIds : IsRepository(w, id) }

\* C18: list_repositories never fails and returns exactly the repositories
\* created and not deleted, and a second call right after it returns the
\* same identifiers.
C18_ListReturnsLiveRepositories ==
    [][ last'.op = "list"
        => /\ last'.err = "none"
           /\ last'.ret = LiveIds(World)
           /\ last.op = "list" => last'.ret = last.ret ]_vars

(***************************************************************************)
(* C19: bare repositories.                                                 *)
(***************************************************************************)
\* the calls that need a working tree
WorkTreeOps ==
    {"get_commits", "get_commit_details", "create_commit", "create_branch",
     "switch_branch", "read_file", "write_file", "push", "pull"}

\* the call recorded in last' is made on a bare repository
CallOnBare ==
    /\ last'.op \in WorkTreeOps
    /\ GetRepoErr(World, last'.id) = "none"
    /\ git[WorkDirOf(last'.id)].bare

\* C19: on a bare repository each of get_commits, get_commit_details,
\* create_commit, create_branch, switch_branch, read_file, write_file, push
\* and pull fails with GitOperationError and leaves the directory, the
\* repository with its references and configuration, and the process
\* environment as they were.
C19_BareRepositoryRefusesWorkTreeCalls ==
    [][ CallOnBare
        => /\ last'.err = "GitOperationError"
           /\ UNCHANGED <<fsDirs, fsFiles, git, environ>> ]_vars

\* a write_file on the bare repository has failed, and the directory holds
\* nothing but the repository and its metadata file
C19_WriteOnBareRefusedWitness ==
    /\ last.op = "write_file"
    /\ last.err = "GitOperationError"
    /\ GetRepoErr(World, last.id) = "none"
    /\ git[WorkDirOf(last.id)].bare
    /\ DOMAIN WorkTree(World, WorkDirOf(last.id)) = {MetadataName}

(***************************************************************************)
(* C20: is_dirty.                                                          *)
(***************************************************************************)
\* the paths of the caller's files whose working-tree state differs from
\* the commit that is checked out: new, edited or removed files (the
\* service's own metadata file is left aside)
UncommittedPaths(w, repo_id) ==
    LET wt == WorkTree(w, WorkDirOf(repo_id))
        h  == HeadTree(w, repo_id)
    IN  { p \in (DOMAIN wt \cup DOMAIN h) \ {MetadataName} : At(wt, p) # At(h, p) }

\* the call recorded in last' is a status call on a non-bare repository
\* that returns
StatusCall(op) ==
    /\ last'.op = op
    /\ last'.err = "none"
    /\ ~git[WorkDirOf(last'.id)].bare

\* C20: is_dirty as get_status and get_repository_info report it is true
\* exactly when the working tree has uncommitted changes, and get_status
\* lists every file that is in the working tree and not in the index with
\* status 'untracked'.
C20_DirtyExactlyWhenUncommittedChanges ==
    [][ /\ StatusCall("get_status")
           => /\ last'.ret.is_dirty <=> UncommittedPaths(World, last'.id) # {}
              /\ \A p \in UntrackedFiles(git[WorkDirOf(last'.id)],
                                         WorkTree(World, WorkDirOf(last'.id))) :
                    \E f \in last'.ret.files : f.path = p /\ f.status = "untracked"
        /\ StatusCall("get")
           => (InfoRecord(World, last'.id).is_dirty
                  <=> UncommittedPaths(World, last'.id) # {}) ]_vars

(***************************************************************************)
(* C21: the author of a commit.                                            *)
(***************************************************************************)
\* the author of the commit HEAD points at, as the commit records show it
HeadAuthor(w, repo_id) ==
    CommitInfo(w.git[WorkDirOf(repo_id)], HeadCommit(w.git[WorkDirOf(repo_id)])).author

\* the call recorded in last' is a create_commit that returned a hash
CommitMade == last'.op = "create_commit" /\ last'.err = "none"

\* C21: the commit made by create_commit carries the given name and email
\* when the caller gives them, and the system identity only if the caller
\* gives neither a name nor an email; the initial commit made by create
\* carries the system identity.
C21_AuthorIsGivenOrSystem ==
    /\ [](CommitInfo(git[WorkDirOf(IdOf(1))], 1).author = AuthorString(SystemUser))
    /\ [][ CommitMade
           => /\ (Truthy(last'.opt.name) /\ Truthy(last'.opt.email))
                 => HeadAuthor(World', last'.id)
                    = AuthorString([name |-> last'.opt.name, email |-> last'.opt.email])
              /\ HeadAuthor(World', last'.id) = AuthorString(SystemUser)
                 => (~Truthy(last'.opt.name) /\ ~Truthy(last'.opt.email)) ]_vars

(***************************************************************************)
(* C22: the sidecar metadata file.                                         *)
(***************************************************************************)
\* the sidecar of repo_id as it parses: ok is FALSE when the file is absent
\* or is no well-formed sidecar
StoredMeta(w, repo_id) ==
    IF PathJoin(WorkDirOf(repo_id), MetadataName) \in DOMAIN w.files
    THEN ParseMeta(DecodeText(w.files[PathJoin(WorkDirOf(repo_id), MetadataName)]))
    ELSE [ok |-> FALSE, name |-> "", url |-> ""]

\* the name and the origin URL a record of repo_id has to carry
NameAndUrlFollowSidecar(w, r) ==
    IF StoredMeta(w, r.id).ok
    THEN r.name = StoredMeta(w, r.id).name /\ r.url = StoredMeta(w, r.id).url
    ELSE r.name = r.id /\ r.url = ""

\* repo_id is a repository within the size limit
OpenAndWithinSize(w, repo_id) ==
    /\ IsRepository(w, repo_id)
    /\ CheckRepositorySize(w, WorkDirOf(repo_id))

Window(line, limit, skip) ==
    LET rest == IF Len(line) > skip THEN Len(line) - skip ELSE 0
        n    == IF limit < rest THEN limit ELSE rest
    IN  [i \in 1..n |-> line[skip + i]]

\* the hashes of the newest-first ancestry of commit tip
HashLine(g, tip) ==
    [i \in 1..Len(Ancestry(g, tip)) |-> HashOf(Ancestry(g, tip)[i])]

\* C23: get_commits(id, branch, limit, skip) on a repository with a working
\* tree returns the entries at positions skip .. skip + limit - 1 of the
\* newest-first ancestry of refs/heads/<branch> when a branch is given and
\* of HEAD when none is given; the list has min(limit, max(0, total - skip))
\* entries, none for limit = 0; an unknown branch fails with
\* GitOperationError.
C23_CommitsWindowOfResolvedReference ==
    (last.op = "get_commits" /\ IsRepository(World, last.id)
        /\ ~git[WorkDirOf(last.id)].bare)
    => IF last.arg = NoneVal
       THEN /\ last.err = "none"
            /\ last.ret = Window(HashLine(git[WorkDirOf(last.id)],
                                          HeadCommit(git[WorkDirOf(last.id)])),
                                 last.data, last.opt)
       ELSE IF IsLocalBranch(World, last.id, last.arg)
       THEN /\ last.err = "none"
            /\ last.ret = Window(HashLine(git[WorkDirOf(last.id)],
                                          git[WorkDirOf(last.id)].branches[last.arg]),
                                 last.data, last.opt)
       ELSE last.err = "GitOperationError"

(***************************************************************************)
(* C24: the commit a new branch points at.                                 *)
(***************************************************************************)
\* the branches of repo_id with the commit each points at
BranchesOf(w, repo_id) == w.git[WorkDirOf(repo_id)].branches

\* C24: create_branch(id, name, base_branch) with a new name makes the
\* branch point at the tip of base_branch when base_branch is given and
\* exists, and at the HEAD commit when none is given; with an unknown
\* base_branch it fails with GitOperationError and the branches stay as they
\* were.
C24_NewBranchPointsAtBaseOrHead ==
    [][ (last'.op = "create_branch" /\ IsRepository(World, last'.id)
            /\ ~git[WorkDirOf(last'.id)].bare
            /\ last'.arg \notin DOMAIN BranchesOf(World, last'.id))
        => IF last'.data = NoneVal
           THEN /\ last'.err = "none"
                /\ BranchesOf(World', last'.id)
                   = MapPut(BranchesOf(World, last'.id), last'.arg,
                            HeadCommit(git[WorkDirOf(last'.id)]))
           ELSE IF IsLocalBranch(World, last'.id, last'.data)
           THEN /\ last'.err = "none"
                /\ BranchesOf(World', last'.id)
                   = MapPut(BranchesOf(World, last'.id), last'.arg,
                            BranchesOf(World, last'.id)[last'.data])
           ELSE /\ last'.err = "GitOperationError"
                /\ BranchesOf(World', last'.id) = BranchesOf(World, last'.id) ]_vars

(***************************************************************************)
(* C25: the author of a commit under concurrent create_commit calls.       *)
(***************************************************************************)
\* the step is the commit statement of a create_commit that began on a
\* repository with a working tree
CommitStep ==
    /\ CommitMade
    /\ \E t \in Threads : frames[t].pc = "configured" /\ frames'[t].pc = "idle"

\* C25: a commit carries an identity other than the one its create_commit
\* call wrote to the configuration exactly when another call wrote a
\* different identity between this call's configuration write and its
\* commit.
C25_ForeignAuthorOnlyWhenClobbered ==
    [][ CommitStep
        => (HeadAuthor(World', last'.id)
               # AuthorString(CommitUser(last'.opt.name, last'.opt.email))
            <=> last'.ret.clobbered) ]_vars

\* a commit was recorded with the author the other call supplied
C25_ForeignAuthorWitness ==
    /\ last.op = "create_commit" /\ last.err = "none"
    /\ \E t \in Threads :
          /\ last.opt # AuthorOf(t)
          /\ HeadAuthor(World, last.id) = AuthorString(AuthorOf(t))

(***************************************************************************)
(* C26: create_commit racing switch_branch.                                *)
(***************************************************************************)
\* C26: the commit statement of create_commit appends the commit to the
\* branch that is checked out when the statement runs, whatever branch was
\* checked out when the call began, and leaves the tip of every other
\* branch.
C26_CommitGoesToBranchCheckedOutAtCommit ==
    [][ CommitStep
        => \A b \in DOMAIN BranchesOf(World', last'.id) :
              BranchesOf(World', last'.id)[b]
              = IF b = git[WorkDirOf(last'.id)].head
                THEN Len(git'[WorkDirOf(last'.id)].commits)
                ELSE BranchesOf(World, last'.id)[b] ]_vars

\* a commit was appended to a branch other than the one checked out when
\* its create_commit began, which keeps its tip
C26_CommitOnOtherBranchWitness ==
    /\ last.op = "create_commit" /\ last.err = "none"
    /\ git[WorkDirOf(last.id)].head # last.ret.began_on
    /\ HashOf(BranchesOf(World, last.id)[git[WorkDirOf(last.id)].head]) = last.ret.hash
    /\ HashOf(BranchesOf(World, last.id)[last.ret.began_on]) # last.ret.hash

(***************************************************************************)
(* C27: reads against the history.                                         *)
(***************************************************************************)
\* the hashes of the commits of repo_id
HashesOf(w, repo_id) ==
    { HashOf(n) : n \in 1..Len(w.git[WorkDirOf(repo_id)].commits) }

\* the commit of repo_id with hash h
CommitAt(w, repo_id, h) ==
    w.git[WorkDirOf(repo_id)].commits[
        CHOOSE n \in 1..Len(w.git[WorkDirOf(repo_id)].commits) : HashOf(n) = h]

\* the call recorded in last is a read_file at a commit of a repository
\* with a working tree
ReadAtCommit ==
    /\ last.op = "read_file"
    /\ IsRepository(World, last.id)
    /\ ~git[WorkDirOf(last.id)].bare
    /\ last.data \in HashesOf(World, last.id)

\* C27: whatever write_file, create_commit, create_branch and switch_branch
\* do, every commit made so far keeps its message, author, parents and
\* changed files under get_commit_details, and every read_file at such a
\* commit keeps its result; a read_file at a commit returns the content the
\* commit holds for the path, also when the working tree holds another or
\* none, and fails with GitOperationError for a path the commit's tree
\* does not hold.
C27_HistoryReadsAreStable ==
    /\ [](ReadAtCommit
          => IF last.arg \in DOMAIN CommitAt(World, last.id, last.data).tree
             THEN /\ last.err = "none"
                  /\ last.ret = CommitAt(World, last.id, last.data).tree[last.arg]
             ELSE last.err = "GitOperationError")
    /\ [][ \A id \in AllocatedIds :
             (IsRepository(World, id) /\ ~git[WorkDirOf(id)].bare /\ IsRepository(World', id))
             => \A h \in HashesOf(World, id) :
                   /\ GetCommitDetailsResult(World', id, h) = GetCommitDetailsResult(World, id, h)
                   /\ GetCommitDetailsResult(World, id, h).err = "none"
                   /\ \A p \in GitPaths \cup {"README.md"} :
                         ReadFileResult(World', id, p, h) = ReadFileResult(World, id, p, h) ]_vars

\* a read_file at a commit returned the committed content of a path that
\* the working tree holds with another content
C27_ReadCommittedAfterOverwriteWitness ==
    /\ ReadAtCommit
    /\ last.err = "none"
    /\ PathJoin(WorkDirOf(last.id), last.arg) \in DOMAIN fsFiles
    /\ fsFiles[PathJoin(WorkDirOf(last.id), last.arg)] # last.ret

(***************************************************************************)
(* C28: what delete removes.                                               *)
(***************************************************************************)
\* C28: delete_repository, whatever identifier string it is given, leaves
\* the store root in place and leaves every other repository that existed
\* before the call in place with its working tree and its history.
C28_DeleteRemovesOnlyItsRepository ==
    [][ last'.op = "delete"
        => /\ Resolve(BasePath) \in fsDirs => Resolve(BasePath) \in fsDirs'
           /\ \A id \in AllocatedIds \ {last'.id} :
                 IsRepository(World, id)
                 => /\ IsRepository(World', id)
                    /\ git'[WorkDirOf(id)] = git[WorkDirOf(id)]
                    /\ WorkTree(World, WorkDirOf(id))' = WorkTree(World, WorkDirOf(id)) ]_vars

(***************************************************************************)
(* C29: create_commit with an empty list of files.                         *)
(***************************************************************************)
\* the call recorded in last' is a create_commit with files=[] on a
\* repository with a working tree
CommitWithEmptyList ==
    /\ last'.op = "create_commit"
    /\ last'.arg = FileList(<<>>)
    /\ IsRepository(World, last'.id)
    /\ ~git[WorkDirOf(last'.id)].bare

\* C29: create_commit with files=[] succeeds and commits the whole working
\* tree as the call without files does: every untracked file, the sidecar
\* included, and every modified file is in the tree of the new commit with
\* its working-tree content.
C29_EmptyListStagesEverything ==
    [][ CommitWithEmptyList
        => /\ last'.err = "none"
           /\ Len(git'[WorkDirOf(last'.id)].commits)
              = Len(git[WorkDirOf(last'.id)].commits) + 1
           /\ HeadTree(World', last'.id) = WorkTree(World, WorkDirOf(last'.id))
           /\ MetadataName \in DOMAIN HeadTree(World', last'.id) ]_vars

\* a commit made with files=[] holds the sidecar and a file that was
\* untracked before
C29_EmptyListCommittedUntrackedWitness ==
    /\ last.op = "create_commit" /\ last.err = "none"
    /\ last.arg = FileList(<<>>)
    /\ {MetadataName, "n.txt"} \subseteq DOMAIN HeadTree(World, last.id)
    /\ Len(git[WorkDirOf(last.id)].commits) = 2

(***************************************************************************)
(* C30: default_branch and current_branch.                                 *)
(***************************************************************************)
\* both branch fields of record r name the branch checked out in w, or
\* "main" for a bare repository
BranchFieldsFollowHead(w, r) ==
    /\ r.default_branch = r.current_branch
    /\ r.current_branch = IF w.git[WorkDirOf(r.id)].bare THEN "main"
                          ELSE w.git[WorkDirOf(r.id)].head

\* C30: in every record returned by get_repository_info or
\* list_repositories default_branch equals current_branch, both naming the
\* branch that is checked out ("main" for a bare repository), and after a
\* successful switch_branch both name the branch switched to.
C30_DefaultBranchIsCurrentBranch ==
    /\ []((last.op = "get" /\ last.err = "none") => BranchFieldsFollowHead(World, last.ret))
    /\ [](\A r \in ListRepositories(World).ret : BranchFieldsFollowHead(World, r))
    /\ [][ (SwitchCall /\ last'.err = "none")
           => /\ InfoRecord(World', last'.id).default_branch = last'.arg
              /\ InfoRecord(World', last'.id).current_branch = last'.arg ]_vars

\* a get after a switch to dev returned dev in both fields
C30_BothFieldsSwitchedWitness ==
    /\ last.op = "get" /\ last.err = "none"
    /\ last.ret.default_branch = "dev"
    /\ last.ret.current_branch = "dev"

====
